---- MODULE Spec2Model ----
(***************************************************************************)
(* Model of the derived-metrics core of titan2 (src/lib):                  *)
(*   - _normalize_indicator and calculate_meditation_score                 *)
(*     (src/lib/segment_analysis.py, identical copies in src/lib/eeg.py)   *)
(*   - calculate_segment_analysis in its two implementations,             *)
(*     src/lib/segment_analysis.py (band powers from MNE epochs of raw,    *)
(*     from the band_means argument, or from the DataFrame columns) and    *)
(*     src/lib/eeg.py (band_means or the DataFrame columns), with the      *)
(*     optional fmtheta_series and iaf_series                               *)
(*   - the z-score outlier rejection used when a metric series is          *)
(*     summarised (segment_analysis.py, statistical_dataframe.py,          *)
(*     sensors/eeg/ratios.py)                                              *)
(*                                                                         *)
(*   - the PSD and band power stage, the envelope metrics, calculate_paf   *)
(*     and the report stages of scripts/generate_report.py                 *)
(*                                                                         *)
(* A number is a binary64 float.  A float that is a fraction n/d with      *)
(* small n and d is written [k |-> "num", n, d] in lowest terms with       *)
(* d > 0, any other float [k |-> "f64", s, m, e] (sign, mantissa in limbs, *)
(* exponent); the form is canonical, so equal floats are equal records.    *)
(* The arithmetic of the normalisation, the score, the series statistics   *)
(* and the segment records rounds every operation as the code's does.      *)
(* NaN and Python's None are separate values of the same record shape, so  *)
(* that every comparison in the model is between records.                  *)
(***************************************************************************)
EXTENDS Integers, Sequences, FiniteSets, TLC

VARIABLES
    norm,                       \* the last call of _normalize_indicator
    score, score2,              \* calls of calculate_meditation_score
    MEDITATION_SCORE_WEIGHTS,   \* the module-level default weight map
    series, summary,            \* a metric series and its summary statistics
    call, seg,                  \* arguments and locals of calculate_segment_analysis
    frame,                      \* band powers and ratios of create_statistical_dataframe
    runs,                       \* repeated runs of create_statistical_dataframe
    columns,                    \* metric columns handed to _min_max_normalize
    spectrum,                   \* a Welch PSD and the band powers taken from it
    envelope,                   \* post-processing of an envelope power series
    paf,                        \* the last call of calculate_paf
    ratios,                     \* band ratios computed from extreme operands
    caller,                     \* what the caller did with a returned result
    report                      \* stages and results of run_full_analysis

scoreVars == <<norm, score, score2, MEDITATION_SCORE_WEIGHTS>>
statVars == <<series, summary>>
segVars == <<call, seg, frame>>
pairVars == <<runs, columns>>
dspVars == <<spectrum, envelope>>
extVars == <<paf, ratios, caller, report>>
vars == <<scoreVars, statVars, segVars, pairVars, dspVars, extVars>>

----------------------------------------------------------------------------
(* Exact arithmetic on floats that the model's inputs keep representable.   *)

Abs(i) == IF i < 0 THEN -i ELSE i

RECURSIVE GCD(_, _)
GCD(a, b) == IF b = 0 THEN a ELSE GCD(b, a % b)

\* np.nan
NaN == [k |-> "nan", n |-> 0, d |-> 1]

\* Python None
None == [k |-> "none", n |-> 0, d |-> 1]

\* the float n/d (d # 0), in lowest terms with a positive denominator
Num(n, d) ==
    LET g == GCD(Abs(n), Abs(d))
        s == IF d < 0 THEN -1 ELSE 1
    IN  [k |-> "num", n |-> (s * n) \div g, d |-> (s * d) \div g]

Int2Num(i) == Num(i, 1)

Zero == Int2Num(0)
One == Int2Num(1)
Half == Num(1, 2)

IsNum(x) == x.k = "num"

\* pd.isna / pd.notna on a scalar: True for NaN and for None
isna(x) == x.k \in {"nan", "none"}
notna(x) == ~isna(x)

Add(x, y) == Num(x.n * y.d + y.n * x.d, x.d * y.d)
Sub(x, y) == Num(x.n * y.d - y.n * x.d, x.d * y.d)
Mul(x, y) == Num(x.n * y.n, x.d * y.d)
\* x / y for y # 0
Div(x, y) == Num(x.n * y.d, x.d * y.n)
Lt(x, y) == x.n * y.d < y.n * x.d
Le(x, y) == x.n * y.d <= y.n * x.d
NumAbs(x) == Num(Abs(x.n), x.d)
NumMin(x, y) == IF Le(x, y) THEN x ELSE y
NumMax(x, y) == IF Le(x, y) THEN y ELSE x


\* Series.clip(lower, upper) on fractions
clip(a, a_min, a_max) == NumMin(NumMax(a, a_min), a_max)

----------------------------------------------------------------------------
(* IEEE-754 binary64 arithmetic (round to nearest, ties to even), as        *)
(* Python, numpy, scipy and pandas carry it out.  A natural number of any   *)
(* size is a little-endian sequence of limbs below Base with no leading     *)
(* zero limb; the parts [s, m, e] stand for the number s * m * 2^e.  A      *)
(* float has a mantissa m of Precision bits, or of fewer bits at the        *)
(* exponent -SubnormalBits (a subnormal number), or is zero.  Infinities    *)
(* are out of reach of the values of the model and are not represented.     *)

LimbBits == 15
Base == 32768
Precision == 53
\* the smallest positive float is 2^-1074
SubnormalBits == 1074
\* extra quotient and root bits computed before rounding
GuardBits == 60
\* a float whose numerator and denominator have at most this many bits is
\* kept as a fraction
ShortBits == 30

RECURSIVE TwoTo(_)
TwoTo(s) == IF s = 0 THEN 1 ELSE 2 * TwoTo(s - 1)

RECURSIVE BitLen(_)
BitLen(k) == IF k = 0 THEN 0 ELSE 1 + BitLen(k \div 2)

Limb(a, i) == IF i <= Len(a) THEN a[i] ELSE 0

Zeros(n) == [i \in 1..n |-> 0]

Reverse(a) == [i \in 1..Len(a) |-> a[Len(a) + 1 - i]]

RECURSIVE BTrim(_)
BTrim(a) ==
    IF a # <<>> /\ a[Len(a)] = 0 THEN BTrim(SubSeq(a, 1, Len(a) - 1)) ELSE a

RECURSIVE BOfInt(_)
BOfInt(k) == IF k = 0 THEN <<>> ELSE <<k % Base>> \o BOfInt(k \div Base)

RECURSIVE BToInt(_)
BToInt(a) == IF a = <<>> THEN 0 ELSE a[1] + Base * BToInt(Tail(a))

RECURSIVE BAddFrom(_, _, _, _)
BAddFrom(a, b, i, carry) ==
    IF i > Len(a) /\ i > Len(b)
    THEN IF carry = 0 THEN <<>> ELSE <<carry>>
    ELSE LET t == Limb(a, i) + Limb(b, i) + carry
         IN  <<t % Base>> \o BAddFrom(a, b, i + 1, t \div Base)

BAdd(a, b) == BTrim(BAddFrom(a, b, 1, 0))

\* a - b for a >= b
RECURSIVE BSubFrom(_, _, _, _)
BSubFrom(a, b, i, borrow) ==
    IF i > Len(a) THEN <<>>
    ELSE LET t == a[i] - Limb(b, i) - borrow
         IN  <<IF t < 0 THEN t + Base ELSE t>>
             \o BSubFrom(a, b, i + 1, IF t < 0 THEN 1 ELSE 0)

BSub(a, b) == BTrim(BSubFrom(a, b, 1, 0))

RECURSIVE BCmpFrom(_, _, _)
BCmpFrom(a, b, i) ==
    IF i = 0 THEN 0
    ELSE IF a[i] > b[i] THEN 1
    ELSE IF a[i] < b[i] THEN -1
    ELSE BCmpFrom(a, b, i - 1)

\* -1, 0 or 1 as a < b, a = b or a > b
BCmp(a, b) ==
    IF Len(a) > Len(b) THEN 1
    ELSE IF Len(a) < Len(b) THEN -1
    ELSE BCmpFrom(a, b, Len(a))

\* a * k for 0 <= k < Base
RECURSIVE BMulSmallFrom(_, _, _, _)
BMulSmallFrom(a, k, i, carry) ==
    IF i > Len(a)
    THEN IF carry = 0 THEN <<>> ELSE <<carry>>
    ELSE LET t == a[i] * k + carry
         IN  <<t % Base>> \o BMulSmallFrom(a, k, i + 1, t \div Base)

BMulSmall(a, k) == BTrim(BMulSmallFrom(a, k, 1, 0))

RECURSIVE BMulFrom(_, _, _)
BMulFrom(a, b, i) ==
    IF i > Len(b) THEN <<>>
    ELSE BAddFrom(Zeros(i - 1) \o BMulSmallFrom(a, b[i], 1, 0),
                  BMulFrom(a, b, i + 1), 1, 0)

BMul(a, b) == BTrim(BMulFrom(a, b, 1))

\* floor(a / k) for 0 < k < Base, from limb i down with the remainder rem of
\* the limbs above
RECURSIVE BQuotFrom(_, _, _, _)
BQuotFrom(a, k, i, rem) ==
    IF i = 0 THEN <<>>
    ELSE Append(BQuotFrom(a, k, i - 1, (rem * Base + a[i]) % k),
                (rem * Base + a[i]) \div k)

BQuot(a, k) == BTrim(BQuotFrom(a, k, Len(a), 0))

\* a * 2^s and floor(a / 2^s)
BShl(a, s) ==
    IF a = <<>> THEN <<>>
    ELSE Zeros(s \div LimbBits) \o BMulSmall(a, TwoTo(s % LimbBits))

BShr(a, s) ==
    IF s \div LimbBits >= Len(a) THEN <<>>
    ELSE BQuot(SubSeq(a, s \div LimbBits + 1, Len(a)), TwoTo(s % LimbBits))

BBits(a) == IF a = <<>> THEN 0 ELSE (Len(a) - 1) * LimbBits + BitLen(a[Len(a)])

BOdd(a) == a # <<>> /\ a[1] % 2 = 1

\* the largest t with v * t <= cur, from an estimate that is not below it
RECURSIVE KFit(_, _, _)
KFit(cur, v, t) == IF BCmp(BMulSmall(v, t), cur) > 0 THEN KFit(cur, v, t - 1) ELSE t

\* the estimate of floor(cur / v) for cur < v * Base from the leading limbs
\* of cur and the leading limb of v: never below the quotient, and at most 2
\* above it when the leading limb of v is at least Base / 2
KEstimate(cur, v) ==
    LET top == Limb(cur, Len(v) + 1) * Base + Limb(cur, Len(v))
    IN  IF top \div v[Len(v)] >= Base THEN Base - 1 ELSE top \div v[Len(v)]

\* long division, a limb of the quotient at a time: rem is what is left of
\* the limbs taken so far, down the limbs still to bring down (the most
\* significant first), q the limbs of the quotient so far
RECURSIVE KDivide(_, _, _, _)
KDivideBy(cur, down, v, q, t) ==
    IF t = 0 THEN KDivide(cur, down, v, <<0>> \o q)
    ELSE KDivide(BSub(cur, BMulSmall(v, t)), down, v, <<t>> \o q)

KDivideAt(cur, down, v, q) == KDivideBy(cur, down, v, q, KFit(cur, v, KEstimate(cur, v)))

KDivide(rem, down, v, q) ==
    IF down = <<>> THEN [q |-> BTrim(q), r |-> rem]
    ELSE KDivideAt(BTrim(<<Head(down)>> \o rem), Tail(down), v, q)

\* the leading limbs of a, one fewer than v has, are below v and give no
\* limb of the quotient
KDivideFrom(a, v, low) ==
    KDivide(SubSeq(a, low + 1, Len(a)), Reverse(SubSeq(a, 1, low)), v, <<>>)

\* a and v shifted until the leading limb of v is at least Base / 2
BDivideShifted(a, v) ==
    IF Len(a) < Len(v) THEN [q |-> <<>>, r |-> a]
    ELSE KDivideFrom(a, v, Len(a) - Len(v) + 1)

BDivideBy(a, v, s) == BDivideShifted(BShl(a, s), BShl(v, s))

\* q = floor(a / v) for v # 0; r is zero exactly when v divides a
BDivide(a, v) == BDivideBy(a, v, LimbBits - BitLen(v[Len(v)]))

\* floor(sqrt(t)) for 0 < t < 2^31 by Newton's iteration from x >= sqrt(t)
RECURSIVE ISqrtFrom(_, _)
ISqrtNext(t, x, y) == IF y >= x THEN x ELSE ISqrtFrom(t, y)

ISqrtFrom(t, x) == ISqrtNext(t, x, (x + t \div x) \div 2)

\* floor(sqrt(n)) by Newton's iteration from x >= floor(sqrt(n))
RECURSIVE BISqrtFrom(_, _)
BISqrtNext(n, x, y) == IF BCmp(y, x) >= 0 THEN x ELSE BISqrtFrom(n, y)

BISqrtFrom(n, x) == BISqrtNext(n, x, BShr(BAdd(x, BDivide(n, x).q), 1))

\* floor(sqrt(n)) for n of 2 * GuardBits bits or one more: the iteration
\* starts from the root of the leading bits of n, rounded up
BISqrt(n) ==
    BISqrtFrom(n, BShl(BOfInt(ISqrtFrom(BToInt(BShr(n, 2 * GuardBits - ShortBits)),
                                        2 * Base) + 1),
                       GuardBits - ShortBits \div 2))

FZero == [s |-> 1, m |-> <<>>, e |-> 0]

\* q * 2^e with q of at most Precision + 1 bits
FCarry(s, q, e) ==
    IF q = <<>> THEN FZero
    ELSE IF BBits(q) > Precision THEN [s |-> s, m |-> BShr(q, 1), e |-> e + 1]
    ELSE [s |-> s, m |-> q, e |-> e]

\* q one up when the bits cut off are above half a unit of q, or are half a
\* unit and q is odd
FRoundQ(s, q, half_bit, below_half, e) ==
    FCarry(s, IF half_bit /\ (below_half \/ BOdd(q)) THEN BAdd(q, <<1>>) ELSE q, e)

\* q1 is m without its lowest cut - 1 bits
FRoundCut(s, m, e, q1, cut) ==
    FRoundQ(s, BShr(q1, 1), BOdd(q1), BShl(q1, cut - 1) # m, e + cut)

\* m loses its lowest cut bits, or gains -cut zero bits
FRoundBits(s, m, e, cut) ==
    IF cut > BBits(m) THEN FZero
    ELSE IF cut > 0 THEN FRoundCut(s, m, e, BShr(m, cut - 1), cut)
    ELSE [s |-> s, m |-> BShl(m, -cut), e |-> e + cut]

\* the bits a float keeps of a mantissa of `bits` bits at the exponent e:
\* Precision, fewer for a subnormal number
KeptBits(bits, e) ==
    IF bits + e + SubnormalBits < Precision THEN bits + e + SubnormalBits
    ELSE Precision

\* the float nearest to s * m * 2^e, ties to even
FRound(s, m, e) ==
    IF m = <<>> THEN FZero ELSE FRoundBits(s, m, e, BBits(m) - KeptBits(BBits(m), e))

\* m with a sticky bit below it: the rounding of (m + fraction) * 2^(e + 1)
\* when inexact tells that a non-zero fraction was dropped
WithSticky(m, inexact) == BAdd(BMulSmall(m, 2), IF inexact THEN <<1>> ELSE <<>>)

FNeg(a) == [a EXCEPT !.s = -a.s]

FAbs(a) == [a EXCEPT !.s = 1]

\* sa * ma * 2^e + sb * mb * 2^e, c the comparison of ma with mb
FAddCompared(sa, ma, sb, mb, e, c) ==
    FRound(IF c >= 0 THEN sa ELSE sb,
           IF sa = sb THEN BAdd(ma, mb)
           ELSE IF c >= 0 THEN BSub(ma, mb) ELSE BSub(mb, ma),
           e)

FAddAligned(sa, ma, sb, mb, e) == FAddCompared(sa, ma, sb, mb, e, BCmp(ma, mb))

FAddAt(a, b, e) == FAddAligned(a.s, BShl(a.m, a.e - e), b.s, BShl(b.m, b.e - e), e)

\* the exponent above the leading bit of a: |a| < 2^FTop(a)
FTop(a) == a.e + BBits(a.m)

\* a + b for |a| >= |b| > 0: a term more than GuardBits bits below the
\* leading bit of the other only tells which way the sum is rounded
FAddOrdered(a, b, far) ==
    FAddAt(a,
           IF far THEN [s |-> b.s, m |-> <<1>>, e |-> FTop(a) - GuardBits - 1] ELSE b,
           IF far THEN FTop(a) - GuardBits - 1
           ELSE IF a.e < b.e THEN a.e ELSE b.e)

FAddSwapped(a, b, swap) ==
    FAddOrdered(IF swap THEN b ELSE a, IF swap THEN a ELSE b,
                (IF swap THEN FTop(b) - FTop(a) ELSE FTop(a) - FTop(b)) > GuardBits)

FAdd(a, b) ==
    IF a.m = <<>> THEN b
    ELSE IF b.m = <<>> THEN a
    ELSE FAddSwapped(a, b, FTop(a) < FTop(b))

FSub(a, b) == FAdd(a, FNeg(b))

FMul(a, b) ==
    IF a.m = <<>> \/ b.m = <<>> THEN FZero
    ELSE FRound(a.s * b.s, BMul(a.m, b.m), a.e + b.e)

FDivRound(s, d, e) == FRound(s, WithSticky(d.q, d.r # <<>>), e)

\* the quotient of a.m * 2^sh by b.m has more than GuardBits bits
FDivShifted(a, b, sh) ==
    FDivRound(a.s * b.s, BDivide(BShl(a.m, sh), b.m), a.e - b.e - sh - 1)

\* a / b for b # 0
FDiv(a, b) ==
    IF a.m = <<>> THEN FZero
    ELSE FDivShifted(a, b, GuardBits + 1 + BBits(b.m) - BBits(a.m))

FSqrtRound(n, r, e) == FRound(1, WithSticky(r, BCmp(BMul(r, r), n) # 0), e)

FSqrtOf(n, e) == FSqrtRound(n, BISqrt(n), e)

FSqrtShifted(a, sh) == FSqrtOf(BShl(a.m, sh), (a.e - sh) \div 2 - 1)

FSqrtAt(a, sh) == FSqrtShifted(a, sh + ((a.e - sh) % 2))

\* sqrt(a) for a >= 0: the root of the mantissa shifted to 2 * GuardBits bits
\* or one more, at an even exponent
FSqrt(a) ==
    IF a.m = <<>> THEN FZero ELSE FSqrtAt(a, 2 * GuardBits - BBits(a.m))

\* -1, 0 or 1 as the sign of a
FSign(a) == IF a.m = <<>> THEN 0 ELSE a.s

FCmpAt(a, b, e) == BCmp(BShl(a.m, a.e - e), BShl(b.m, b.e - e))

\* the comparison of |a| with |b| for a and b that are not zero
FCmpAbs(a, b) ==
    IF FTop(a) < FTop(b) THEN -1
    ELSE IF FTop(a) > FTop(b) THEN 1
    ELSE FCmpAt(a, b, IF a.e < b.e THEN a.e ELSE b.e)

\* -1, 0 or 1 as a < b, a = b or a > b
FCmp(a, b) ==
    IF FSign(a) < FSign(b) THEN -1
    ELSE IF FSign(a) > FSign(b) THEN 1
    ELSE IF FSign(a) = 0 THEN 0
    ELSE a.s * FCmpAbs(a, b)

\* d is a power of two
IsPow2(d) == d = TwoTo(BitLen(d) - 1)

\* a binary64 value that is no short fraction: s * m * 2^e, where m is the
\* sum of m[i] * Base^(i-1)
F64(a) == [k |-> "f64", s |-> a.s, m |-> a.m, e |-> a.e]

\* the float s * n * 2^e, n below 2^ShortBits, as a value of the model: the
\* fraction when its denominator has at most ShortBits bits
FCanonShort(a, n, e, drop) ==
    IF e <= 0 /\ drop < ShortBits /\ n % TwoTo(drop) = 0
    THEN Num(a.s * (n \div TwoTo(drop)), TwoTo(-e - drop))
    ELSE F64(a)

FCanonAt(a, q, sh) ==
    IF BShl(q, sh) = a.m
    THEN FCanonShort(a, BToInt(q), a.e + sh,
                     IF -(a.e + sh) > ShortBits THEN -(a.e + sh) - ShortBits ELSE 0)
    ELSE F64(a)

\* the float a as a value of the model
FCanon(a) ==
    IF a.m = <<>> THEN Zero
    ELSE IF BBits(a.m) = Precision
    THEN FCanonAt(a, BShr(a.m, Precision - ShortBits), Precision - ShortBits)
    ELSE F64(a)

\* the float s * n * 2^e for 0 < n < 2^ShortBits
FOfShort(s, n, e) ==
    [s |-> s, m |-> BShl(BOfInt(n), Precision - BitLen(n)), e |-> e - (Precision - BitLen(n))]

\* the parts of a value of the model: a float that is no short fraction, or
\* a fraction with a power of two as its denominator
Parts(x) ==
    IF x.k = "f64" THEN [s |-> x.s, m |-> x.m, e |-> x.e]
    ELSE IF x.n = 0 THEN FZero
    ELSE FOfShort(IF x.n < 0 THEN -1 ELSE 1, Abs(x.n),
                  IF IsPow2(x.d) THEN 1 - BitLen(x.d) ELSE CHOOSE e \in {} : TRUE)

\* no operation on two such fractions rounds or leaves 32 bits
Short(x) == x.k = "num" /\ x.d < Base /\ IsPow2(x.d) /\ -Base < x.n /\ x.n < Base

\* x + y, x - y, x * y and x / y (y # 0) in binary64: NaN in, NaN out
VAdd(x, y) ==
    IF x.k = "nan" \/ y.k = "nan" THEN NaN
    ELSE IF Short(x) /\ Short(y) THEN Add(x, y)
    ELSE FCanon(FAdd(Parts(x), Parts(y)))

VNeg(x) ==
    IF x.k = "f64" THEN [x EXCEPT !.s = -x.s]
    ELSE IF x.k = "num" THEN Num(-x.n, x.d)
    ELSE x

VSub(x, y) == VAdd(x, VNeg(y))

VMul(x, y) ==
    IF x.k = "nan" \/ y.k = "nan" THEN NaN
    ELSE IF Short(x) /\ Short(y) THEN Mul(x, y)
    ELSE FCanon(FMul(Parts(x), Parts(y)))

VDiv(x, y) ==
    IF x.k = "nan" \/ y.k = "nan" THEN NaN
    ELSE IF Short(x) /\ Short(y) /\ IsPow2(Div(x, y).d) THEN Div(x, y)
    ELSE FCanon(FDiv(Parts(x), Parts(y)))

\* np.sqrt(x) for x >= 0
VSqrt(x) == IF x.k = "nan" THEN NaN ELSE FCanon(FSqrt(Parts(x)))

\* x < y and x <= y: False when either is NaN
VLt(x, y) ==
    /\ x.k # "nan" /\ y.k # "nan"
    /\ IF Short(x) /\ Short(y) THEN Lt(x, y)
       ELSE FCmp(Parts(x), Parts(y)) < 0

VLe(x, y) ==
    /\ x.k # "nan" /\ y.k # "nan"
    /\ IF Short(x) /\ Short(y) THEN Le(x, y)
       ELSE FCmp(Parts(x), Parts(y)) <= 0

VAbs(x) == IF x.k = "f64" THEN [x EXCEPT !.s = 1] ELSE IF x.k = "num" THEN NumAbs(x) ELSE x

\* the float of a decimal literal or of a fraction n/d: the float nearest to
\* it
Float(x) ==
    IF x.k = "num" /\ ~IsPow2(x.d) THEN VDiv(Int2Num(x.n), Int2Num(x.d)) ELSE x

----------------------------------------------------------------------------
(* np.isclose, np.clip and _normalize_indicator                            *)

\* the defaults rtol=1e-05 and atol=1e-08 of np.isclose
Rtol == Float(Num(1, 100000))
Atol == Float(Num(1, 100000000))

\* np.isclose(a, b): |a - b| <= atol + rtol * |b|
isclose(a, b) == VLe(VAbs(VSub(a, b)), VAdd(Atol, VMul(Rtol, VAbs(b))))

\* np.maximum and np.minimum of two floats that are not NaN
VMax(x, y) == IF VLt(x, y) THEN y ELSE x
VMin(x, y) == IF VLt(y, x) THEN y ELSE x

\* np.clip(a, a_min, a_max) == minimum(maximum(a, a_min), a_max); with
\* a_min > a_max the result is a_max
np_clip(a, a_min, a_max) == VMin(VMax(a, a_min), a_max)

\* if reverse: normalized = 1.0 - normalized
Reversed(normalized, reverse) ==
    IF reverse THEN VSub(One, normalized) ELSE normalized

\* a mutant of NormalizeGiven that scores a missing value 0
normalize_missing_zero(value, min_val, max_val, reverse, close) ==
    IF isna(value) THEN Zero
    ELSE Reversed(IF close THEN Half
                  ELSE VDiv(VSub(np_clip(value, min_val, max_val), min_val),
                            VSub(max_val, min_val)),
                  reverse)

\* the body of _normalize_indicator, where close is the value of
\* np.isclose(max_val, min_val)
NormalizeGiven(value, min_val, max_val, reverse, close) ==
    IF isna(value) THEN Half
    ELSE Reversed(IF close THEN Half
                  ELSE VDiv(VSub(np_clip(value, min_val, max_val), min_val),
                            VSub(max_val, min_val)),
                  reverse)

_normalize_indicator(value, min_val, max_val, reverse) ==
    NormalizeGiven(value, min_val, max_val, reverse, isclose(max_val, min_val))

----------------------------------------------------------------------------
(* calculate_meditation_score                                              *)

\* the keyword parameters of calculate_meditation_score that carry indicators
Params == {"fmtheta", "spectral_entropy", "theta_alpha_ratio", "faa",
           "alpha_beta_ratio", "iaf_cv", "hsi_quality"}

\* the keys of the 'scores' breakdown the function builds
ScoreKeys == {"fmtheta", "spectral_entropy", "theta_alpha_ratio", "faa",
              "alpha_beta_ratio", "iaf_stability", "quality"}

\* for each key of the breakdown: the parameter it is computed from, the
\* literals of the reference range and the "lower is better" flag
IndicatorRanges ==
    [key \in ScoreKeys |->
        CASE key = "fmtheta" ->
               [param |-> "fmtheta", min_val |-> Int2Num(50),
                max_val |-> Int2Num(200), reverse |-> FALSE]
          [] key = "spectral_entropy" ->
               [param |-> "spectral_entropy", min_val |-> Num(7, 10),
                max_val |-> Int2Num(1), reverse |-> TRUE]
          [] key = "theta_alpha_ratio" ->
               [param |-> "theta_alpha_ratio", min_val |-> Int2Num(-1),
                max_val |-> Int2Num(1), reverse |-> FALSE]
          [] key = "faa" ->
               [param |-> "faa", min_val |-> Num(-1, 2),
                max_val |-> Num(1, 2), reverse |-> FALSE]
          [] key = "alpha_beta_ratio" ->
               [param |-> "alpha_beta_ratio", min_val |-> Int2Num(1),
                max_val |-> Int2Num(10), reverse |-> FALSE]
          [] key = "iaf_stability" ->
               [param |-> "iaf_cv", min_val |-> Int2Num(0),
                max_val |-> Num(5, 100), reverse |-> TRUE]
          [] key = "quality" ->
               [param |-> "hsi_quality", min_val |-> Int2Num(1),
                max_val |-> Int2Num(4), reverse |-> TRUE]]

\* the same table with the literals as floats
IndicatorFloats ==
    [key \in ScoreKeys |->
        [param |-> IndicatorRanges[key].param,
         min_val |-> Float(IndicatorRanges[key].min_val),
         max_val |-> Float(IndicatorRanges[key].max_val),
         reverse |-> IndicatorRanges[key].reverse]]

\* the table with, for each range, the value np.isclose(max_val, min_val)
\* takes in _normalize_indicator
IndicatorTable ==
    [key \in ScoreKeys |->
        [param |-> IndicatorFloats[key].param,
         min_val |-> IndicatorFloats[key].min_val,
         max_val |-> IndicatorFloats[key].max_val,
         reverse |-> IndicatorFloats[key].reverse,
         close |-> isclose(IndicatorFloats[key].max_val, IndicatorFloats[key].min_val)]]

\* a Python dict with string keys: the keys in insertion order and the value
\* at each key
Dict(pairs) ==
    [keys |-> [i \in DOMAIN pairs |-> pairs[i][1]],
     at |-> [key \in {pairs[i][1] : i \in DOMAIN pairs} |->
                pairs[CHOOSE i \in DOMAIN pairs : pairs[i][1] = key][2]]]

\* d[key] = value: a new key goes to the end, a key of d keeps its place
SetItem(d, key, value) ==
    [keys |-> IF key \in DOMAIN d.at THEN d.keys ELSE Append(d.keys, key),
     at |-> [kk \in DOMAIN d.at \cup {key} |-> IF kk = key THEN value ELSE d.at[kk]]]

\* the initial value of the module-level dictionary MEDITATION_SCORE_WEIGHTS;
\* a weight is kept as the decimal literal it is written as and is turned
\* into its float where it is used
DefaultWeights ==
    Dict(<< <<"fmtheta", Num(3125, 10000)>>,
            <<"spectral_entropy", Num(25, 100)>>,
            <<"theta_alpha_ratio", Num(1875, 10000)>>,
            <<"alpha_beta_ratio", Num(125, 1000)>>,
            <<"iaf_stability", Num(125, 1000)>> >>)

\* one entry of the breakdown:
\* "_normalize_indicator(x, ...) if x is not None else 0.5"
IndicatorScoreOf(x, row) ==
    IF x = None THEN Half
    ELSE NormalizeGiven(x, row.min_val, row.max_val, row.reverse, row.close)

IndicatorScore(key, args) ==
    IndicatorScoreOf(args[IndicatorTable[key].param], IndicatorTable[key])

\* the 'scores' breakdown
Scores(args) == [key \in ScoreKeys |-> IndicatorScore(key, args)]

\* sum(f[k] for k in keys) of fractions, without rounding
RECURSIVE SumOver(_, _)
SumOver(keys, f) ==
    IF keys = {} THEN Zero
    ELSE LET k == CHOOSE x \in keys : TRUE
         IN  Add(f[k], SumOver(keys \ {k}, f))

\* sum(scores[key] * weights[key] for key in weights.keys() if key in scores):
\* the products are added to 0 in the order of the keys of weights, each
\* product and each partial sum rounded.  (From Python 3.12 on sum() carries a
\* compensation term while its items are exact Python floats; a product with
\* a numpy.float64 score ends that.  With the weight maps drawn here, the
\* default map of dyadic weights and maps of at most two keys, the
\* compensated and the plain sum are the same float.)
RECURSIVE WeightedSumFrom(_, _, _, _)
WeightedSumStep(scores, weights, i, acc) ==
    IF acc.k = "nan" THEN acc ELSE WeightedSumFrom(scores, weights, i, acc)

WeightedSumFrom(scores, weights, i, acc) ==
    IF i > Len(weights.keys) THEN acc
    ELSE IF weights.keys[i] \in DOMAIN scores
    THEN WeightedSumStep(scores, weights, i + 1,
                         VAdd(acc, VMul(scores[weights.keys[i]],
                                        Float(weights.at[weights.keys[i]]))))
    ELSE WeightedSumFrom(scores, weights, i + 1, acc)

WeightedSum(scores, weights) == WeightedSumFrom(scores, weights, 1, Zero)

\* a mutant of LevelOf with strict comparisons
LevelOfStrict(total_score_100) ==
    IF VLt(Int2Num(80), total_score_100) THEN "excellent"
    ELSE IF VLt(Int2Num(65), total_score_100) THEN "good"
    ELSE IF VLt(Int2Num(50), total_score_100) THEN "fair"
    ELSE "needs_improvement"

\* the level strings of the source: "excellent" is 優秀, "good" is 良好,
\* "fair" is 普通, "needs_improvement" is 要改善
LevelOf(total_score_100) ==
    IF VLe(Int2Num(80), total_score_100) THEN "excellent"
    ELSE IF VLe(Int2Num(65), total_score_100) THEN "good"
    ELSE IF VLe(Int2Num(50), total_score_100) THEN "fair"
    ELSE "needs_improvement"

ScoreResult(total_score_100, scores, weights) ==
    [total_score |-> total_score_100,
     level |-> LevelOf(total_score_100),
     scores |-> scores,
     weights |-> weights]

\* total_score_100 = total_score * 100.0
ScoreOf(scores, weights) ==
    ScoreResult(VMul(WeightedSum(scores, weights), Int2Num(100)), scores, weights)

\* calculate_meditation_score(**args, weights=weights), where module_weights
\* is the current MEDITATION_SCORE_WEIGHTS and weights = None means "not given"
calculate_meditation_score(args, weights, module_weights) ==
    ScoreOf(Scores(args), IF weights = None THEN module_weights ELSE weights)

----------------------------------------------------------------------------
(* Sums, means and standard deviations of numpy and pandas                 *)

\* sum of fractions, without rounding
RECURSIVE SeqSum(_)
SeqSum(values) ==
    IF values = <<>> THEN Zero ELSE Add(Head(values), SeqSum(Tail(values)))

\* Series.dropna()
dropna(values) == SelectSeq(values, notna)

\* the mean of the entries that are not NaN as a fraction, NaN if there is
\* none
mean(values) ==
    LET clean == dropna(values)
    IN  IF clean = <<>> THEN NaN ELSE Div(SeqSum(clean), Int2Num(Len(clean)))

\* res += a[i] for i, i + step, ... up to last, each sum evaluated before the
\* next one is started
RECURSIVE SumFrom(_, _, _, _, _)
SumStep(a, i, step, last, res) ==
    IF res.k = "nan" THEN res ELSE SumFrom(a, i, step, last, res)

SumFrom(a, i, step, last, res) ==
    IF i > last THEN res
    ELSE SumStep(a, i + step, step, last, VAdd(res, a[i]))

\* (r[1] + r[2]) + (r[3] + r[4]) ... down to one sum
RECURSIVE Pairwise(_)
Pairwise(r) ==
    IF Len(r) = 1 THEN r[1]
    ELSE Pairwise([j \in 1..(Len(r) \div 2) |-> VAdd(r[2 * j - 1], r[2 * j])])

\* the 8 accumulators r[j] = a[j] + a[j + 8] + ... over the first `full`
\* entries, added pairwise, then the rest of the entries
NpSumBlocks(a, full) ==
    SumFrom(a, full + 1, 1, Len(a),
            Pairwise([j \in 1..8 |-> SumFrom(a, j + 8, 8, full, a[j])]))

\* np.add.reduce over a contiguous array of at most 128 floats: a plain loop
\* below 8 entries, else the pairwise sum
NpSum(a) ==
    IF Len(a) < 8 THEN SumFrom(a, 1, 1, Len(a), Zero)
    ELSE NpSumBlocks(a, Len(a) - (Len(a) % 8))

\* the entries with NaN replaced by 0, and the number of entries that are
\* not NaN
FillZero(values) ==
    [i \in 1..Len(values) |-> IF isna(values[i]) THEN Zero ELSE values[i]]

Count(values) == Len(dropna(values))

\* Series.mean() of pandas and a.mean() of numpy: the sum of the entries that
\* are not NaN over their number, NaN if there is none
SeriesMean(values) ==
    IF Count(values) = 0 THEN NaN
    ELSE VDiv(NpSum(FillZero(values)), Int2Num(Count(values)))

\* (x - avg) ** 2 for the entries that are not NaN, 0 for the others
SquaredDeviation(dev) == VMul(dev, dev)

SquaredDeviations(values, avg) ==
    [i \in 1..Len(values) |->
        IF isna(values[i]) THEN Zero ELSE SquaredDeviation(VSub(values[i], avg))]

\* Series.std() of pandas (ddof = 1, as pandas' own nanops computes it) and
\* a.std() of numpy (ddof = 0) around the mean avg of the series:
\* sqrt(sum((x - avg) ** 2) / (count - ddof)), NaN if count <= ddof
SeriesStd(values, avg, ddof) ==
    IF Count(values) <= ddof THEN NaN
    ELSE VSqrt(VDiv(NpSum(SquaredDeviations(values, avg)),
                    Int2Num(Count(values) - ddof)))

----------------------------------------------------------------------------
(* Summary statistics of a metric series with z-score outlier rejection    *)

\* a mutant of ZBelow3 with the threshold 2.0
ZBelow2(dev, std) ==
    IF std = Zero THEN FALSE
    ELSE VLt(VAbs(VDiv(dev, std)), Int2Num(2))

\* np.abs(stats.zscore(values))[i] < 3.0, where dev = values[i] - mean and
\* std is the population standard deviation; with std = 0 the z-score is nan
\* or inf and the comparison is False
ZBelow3(dev, std) ==
    IF std = Zero THEN FALSE
    ELSE VLt(VAbs(VDiv(dev, std)), Int2Num(3))

ZFilteredAt(values, mn, std) ==
    SelectSeq(values, LAMBDA x : ZBelow3(VSub(x, mn), std))

ZFilteredFrom(values, mn) == ZFilteredAt(values, mn, SeriesStd(values, mn, 0))

\* values[np.abs(stats.zscore(values)) < 3.0] for values without NaN:
\* zscore is (values - values.mean()) / values.std()
ZFiltered(values) == ZFilteredFrom(values, SeriesMean(values))

\* the summary of a series with none of its values discarded
Unfiltered(values) ==
    [kept |-> values,
     mean |-> IF Len(values) > 0 THEN SeriesMean(values) ELSE NaN,
     n_outliers |-> 0,
     reported |-> TRUE]

\* fm_filtered.mean() if len(fm_filtered) > 0 else fm_clean.mean()
FmMeanOf(fm_clean, fm_filtered) ==
    [kept |-> IF Len(fm_filtered) > 0 THEN fm_filtered ELSE fm_clean,
     mean |-> SeriesMean(IF Len(fm_filtered) > 0 THEN fm_filtered ELSE fm_clean),
     n_outliers |-> Len(fm_clean) - Len(fm_filtered),
     reported |-> TRUE]

FmMeanOfClean(fm_clean) ==
    IF Len(fm_clean) > 3 THEN FmMeanOf(fm_clean, ZFiltered(fm_clean))
    ELSE Unfiltered(fm_clean)

\* a mutant of SegmentFmMean that takes the mean of the filtered values even
\* when the filter leaves none
SegmentFmMeanNoFallback(fm_slice) ==
    IF Len(dropna(fm_slice)) > 3
    THEN [kept |-> ZFiltered(dropna(fm_slice)),
          mean |-> SeriesMean(ZFiltered(dropna(fm_slice))),
          n_outliers |-> Len(dropna(fm_slice)) - Len(ZFiltered(dropna(fm_slice))),
          reported |-> TRUE]
    ELSE Unfiltered(dropna(fm_slice))

\* the per-segment Fm-theta mean of calculate_segment_analysis
SegmentFmMean(fm_slice) == FmMeanOfClean(dropna(fm_slice))

\* the statistics of the values a column keeps
StatisticsOf(values, used) ==
    [kept |-> used, mean |-> SeriesMean(used),
     n_outliers |-> Len(values) - Len(used), reported |-> TRUE]

\* values = filtered_values, under "if len(values) > 3" and
\* "if len(filtered_values) > 0"
BandFiltered(values, filtered_values) ==
    StatisticsOf(values, IF Len(filtered_values) > 0 THEN filtered_values ELSE values)

BandStatisticsOf(values) ==
    IF Len(values) = 0
    THEN [kept |-> <<>>, mean |-> NaN, n_outliers |-> 0, reported |-> FALSE]
    ELSE BandFiltered(values, IF Len(values) > 3 THEN ZFiltered(values) ELSE values)

\* the statistics of one band power or band ratio column in
\* create_statistical_dataframe
BandStatistics(column) == BandStatisticsOf(dropna(column))

RatioFiltered(values, filtered_values) ==
    [kept |-> filtered_values,
     mean |-> IF Len(filtered_values) > 0 THEN SeriesMean(filtered_values) ELSE NaN,
     n_outliers |-> Len(values) - Len(filtered_values),
     reported |-> TRUE]

RatioStatisticsOf(values) ==
    IF Len(values) > 0 THEN RatioFiltered(values, ZFiltered(values))
    ELSE [kept |-> <<>>, mean |-> NaN, n_outliers |-> 0, reported |-> FALSE]

\* the statistics of one ratio column in calculate_band_ratios
RatioStatistics(column) == RatioStatisticsOf(dropna(column))

----------------------------------------------------------------------------
(* calculate_segment_analysis and the ratio stage of                        *)
(* create_statistical_dataframe.  Time is in whole minutes.                 *)

RECURSIVE Pow(_, _)
Pow(b, e) == IF e = 0 THEN 1 ELSE b * Pow(b, e - 1)

\* 10 ** x for a whole number of Bels x (the inputs of the model keep the
\* log-domain difference handed to it whole): 10^n, or the float nearest to
\* 1 / 10^n
Pow10(x) ==
    IF x.k = "num" /\ x.d = 1
    THEN IF x.n >= 0 THEN Int2Num(Pow(10, x.n)) ELSE Float(Num(1, Pow(10, -x.n)))
    ELSE CHOOSE y \in {} : TRUE

\* the entries of a time series (a sequence of [t, v]) with start <= t < end
Window(ts, start, end) ==
    SelectSeq(ts, LAMBDA e : e.t >= start /\ e.t < end)

Values(ts) == [i \in 1..Len(ts) |-> ts[i].v]

\* series[series.index >= session_start]
FromStart(ts, session_start) == SelectSeq(ts, LAMBDA e : e.t >= session_start)

\* the bands of a segment
SegmentBands == {"Alpha", "Beta", "Theta"}

\* band_series[band]: the band's column of df_clean indexed by TimeStamp
BandSeries(df_clean, band) ==
    [i \in 1..Len(df_clean) |-> [t |-> df_clean[i].TimeStamp, v |-> df_clean[i][band]]]

\* the samples of raw with tmin <= time <= tmax
Cropped(raw, tmin, tmax) ==
    SelectSeq(raw, LAMBDA s : s.time >= tmin /\ s.time <= tmax)

\* make_fixed_length_events(raw_cropped, duration) on a recording of
\* `samples` samples, one sample a minute: an event every `duration` samples
\* as long as `duration` samples are left from it
EventCount(samples, duration) == samples \div duration

\* Epochs(raw_cropped, events, tmin=0, tmax=duration, preload=True): the
\* epoch of an event holds duration + 1 samples, its last sample included,
\* and an epoch that does not fit into the recording is dropped
EpochCount(samples, duration) == (samples - 1) \div duration

\* the power of a band in one epoch.  The Welch PSD is computed by MNE from
\* the samples of the epoch; here it is the mean of the band levels the
\* samples carry, a value that depends on every sample of the epoch and on
\* no other, and that is NaN as soon as one sample is
EpochBandPower(samples, band) ==
    IF \E i \in 1..Len(samples) : isna(samples[i][band]) THEN NaN
    ELSE SeriesMean([i \in 1..Len(samples) |-> samples[i][band]])

\* _calculate_band_power_from_epochs(raw, segment_minutes, session_start,
\* warmup_minutes): raw.times counts from 0; epochs[i] is the span of
\* raw.times that epoch i is computed from.  When every epoch is dropped the
\* call ends with an error as well: of compute_psd, or of the test
\* "if segment_frame.empty" of the caller
_calculate_band_power_from_epochs(raw, segment_minutes, session_start, warmup_minutes) ==
    LET tmin == warmup_minutes
        tmax == raw[Len(raw)].time
        raw_cropped == Cropped(raw, tmin, tmax)
        n_events == IF tmin >= tmax THEN 0
                    ELSE EventCount(Len(raw_cropped), segment_minutes)
        n_epochs == IF tmin >= tmax THEN 0
                    ELSE EpochCount(Len(raw_cropped), segment_minutes)
        epochs == [i \in 1..n_epochs |->
                      [tmin |-> tmin + (i - 1) * segment_minutes,
                       tmax |-> tmin + i * segment_minutes]]
    IN  [raised |-> IF tmin >= tmax THEN "warmup_exceeds_data"
                    ELSE IF n_events = 0 THEN "no_events"
                    ELSE IF n_epochs = 0 THEN "no_epochs"
                    ELSE "",
         epochs |-> epochs,
         band_series |->
            [band \in SegmentBands |->
                [i \in 1..n_epochs |->
                    [t |-> session_start + warmup_minutes
                              + (i - 1) * segment_minutes,
                     v |-> EpochBandPower(
                              Cropped(raw_cropped, epochs[i].tmin, epochs[i].tmax),
                              band)]]]]

\* "use_mne_epochs and raw is not None and MNE_AVAILABLE", "elif band_means
\* is not None", else the columns of df_clean; src/lib/eeg.py has the last
\* two only
BandPath(impl, given, use_mne_epochs, mne_available) ==
    IF impl = "segment_analysis" /\ use_mne_epochs /\ "raw" \in given
       /\ mne_available
    THEN "mne"
    ELSE IF "band_means" \in given THEN "band_means"
    ELSE "legacy"

\* _segment_mean(series) for the window [start, end)
_segment_mean(ts, start, end) ==
    IF ts = <<>> THEN NaN ELSE SeriesMean(Values(Window(ts, start, end)))

\* band_series[band].iloc[idx - 1] if idx - 1 < len(band_series[band])
\* else np.nan
EpochValue(ts, idx) == IF idx - 1 < Len(ts) THEN ts[idx].v ELSE NaN

\* the end of the window that starts at start: src/lib/eeg.py clips it to
\* session_end, src/lib/segment_analysis.py does not
SegmentEnd(impl, start, segment_delta, session_end) ==
    IF impl = "eeg"
    THEN IF start + segment_delta < session_end THEN start + segment_delta
         ELSE session_end
    ELSE start + segment_delta

\* a mutant of theta_alpha_ratio that counts a missing alpha as 0 Bels
theta_alpha_ratio_partial(alpha_mean, theta_mean) ==
    IF notna(theta_mean)
    THEN IF notna(alpha_mean) THEN VSub(theta_mean, alpha_mean) ELSE theta_mean
    ELSE NaN

\* theta/alpha ratio in the log domain (Bels)
theta_alpha_ratio(alpha_mean, theta_mean) ==
    IF notna(alpha_mean) /\ notna(theta_mean)
    THEN VSub(theta_mean, alpha_mean)
    ELSE NaN

\* alpha/beta ratio in the log domain (Bels)
alpha_beta_ratio_log(alpha_mean, beta_mean) ==
    IF notna(alpha_mean) /\ notna(beta_mean)
    THEN VSub(alpha_mean, beta_mean)
    ELSE NaN

\* a mutant of alpha_beta_ratio that bounds the ratio by the reference range
\* of the score
alpha_beta_ratio_clamped(alpha_mean, beta_mean) ==
    IF notna(alpha_mean) /\ notna(beta_mean)
    THEN np_clip(Pow10(alpha_beta_ratio_log(alpha_mean, beta_mean)),
                 Int2Num(1), Int2Num(10))
    ELSE NaN

\* alpha/beta ratio in the linear domain
alpha_beta_ratio(alpha_mean, beta_mean) ==
    IF notna(alpha_mean) /\ notna(beta_mean)
    THEN Pow10(alpha_beta_ratio_log(alpha_mean, beta_mean))
    ELSE NaN

\* iaf_cv = iaf_std / iaf_val under "pd.notna(iaf_val) and iaf_val != 0"
IafVariation(iaf_slice, iaf_val) ==
    IF notna(iaf_val) /\ iaf_val # Zero
    THEN VDiv(SeriesStd(iaf_slice, iaf_val, 1), iaf_val)
    ELSE NaN

\* the IAF variation of a segment under "len(iaf_slice) > 1", with
\* iaf_val = iaf_slice.mean()
IafCv(iaf_slice) ==
    IF Len(iaf_slice) > 1 THEN IafVariation(iaf_slice, SeriesMean(iaf_slice)) ELSE NaN

\* the row of a segment, its alpha/beta ratio and its annotation once the
\* indicators are computed and the segment is scored
SegmentScored(idx, start, end, band_mean, fm_slice, fm_mean, iaf_mean, ta, ab_log, ab, iaf_cv, clean_count, segment_score_result) ==
    [record |->
        [segment_index |-> idx,
         segment_start |-> start,
         segment_end |-> end,
         fmtheta_mean |-> fm_mean,
         iaf_mean |-> iaf_mean,
         alpha_mean |-> band_mean.Alpha,
         beta_mean |-> band_mean.Beta,
         theta_mean |-> band_mean.Theta,
         theta_alpha_ratio |-> ta,
         meditation_score |-> segment_score_result.total_score],
     locals |->
        [alpha_beta_ratio_log |-> ab_log,
         alpha_beta_ratio |-> ab,
         iaf_cv |-> iaf_cv,
         clean_count |-> clean_count],
     comment |->
        (IF clean_count = 0 THEN <<"no_data">> ELSE <<>>)
        \o (IF dropna(fm_slice) = <<>> THEN <<"no_fmtheta">> ELSE <<>>)]

\* the call of calculate_meditation_score for a segment: spectral_entropy,
\* faa and hsi_quality are None
SegmentIndicators(idx, start, end, band_mean, fm_slice, fm_mean, iaf_mean, ta, ab_log, ab, iaf_cv, clean_count, module_weights) ==
    SegmentScored(idx, start, end, band_mean, fm_slice, fm_mean, iaf_mean,
                  ta, ab_log, ab, iaf_cv, clean_count,
                  calculate_meditation_score(
                      [p \in Params |->
                          CASE p = "fmtheta" -> fm_mean
                            [] p = "theta_alpha_ratio" -> ta
                            [] p = "alpha_beta_ratio" -> ab
                            [] p = "iaf_cv" -> iaf_cv
                            [] OTHER -> None],
                      None, module_weights))

\* the indicators of a segment from the means of its window: Fm-theta mean,
\* IAF mean, the two ratios and the IAF variation; iaf_given is
\* "iaf_series is not None"
SegmentWindow(idx, start, end, band_mean, fm_slice, iaf_given, iaf_slice, clean_count, module_weights) ==
    SegmentIndicators(idx, start, end, band_mean, fm_slice,
                      SegmentFmMean(fm_slice).mean,
                      IF iaf_given THEN SeriesMean(iaf_slice) ELSE NaN,
                      theta_alpha_ratio(band_mean.Alpha, band_mean.Theta),
                      alpha_beta_ratio_log(band_mean.Alpha, band_mean.Beta),
                      alpha_beta_ratio(band_mean.Alpha, band_mean.Beta),
                      IF iaf_given THEN IafCv(iaf_slice) ELSE NaN,
                      clean_count, module_weights)

\* the body of the loop over segment_starts for the segment idx whose window
\* is [start, end): the band means (of the epoch idx on the epoch path, of
\* the window on the other paths) and the slices of the Fm-theta series, of
\* the IAF series and of the table
SegmentSlices(path, idx, start, end, df_clean, fmtheta_series, iaf_given, iaf_series, band_series, module_weights) ==
    SegmentWindow(idx, start, end,
                  [band \in SegmentBands |->
                      IF path = "mne" THEN EpochValue(band_series[band], idx)
                      ELSE _segment_mean(band_series[band], start, end)],
                  Values(Window(fmtheta_series, start, end)),
                  iaf_given,
                  IF iaf_given THEN Values(Window(iaf_series, start, end)) ELSE <<>>,
                  Len(SelectSeq(df_clean,
                                LAMBDA r : r.TimeStamp >= start /\ r.TimeStamp < end)),
                  module_weights)

\* one pass of "for idx, start in enumerate(segment_starts, start=1)"; path
\* is the branch band_series was taken from
SegmentRecord(impl, path, idx, start, segment_delta, session_end, df_clean, fmtheta_series, iaf_given, iaf_series, band_series, module_weights) ==
    SegmentSlices(path, idx, start,
                  SegmentEnd(impl, start, segment_delta, session_end),
                  df_clean, fmtheta_series, iaf_given, iaf_series, band_series,
                  module_weights)

\* a mutant of idxmax that picks the first index with the smallest score
idxmin(records) ==
    CHOOSE i \in 1..Len(records) :
        /\ \A j \in 1..Len(records) :
              VLe(records[i].meditation_score, records[j].meditation_score)
        /\ \A j \in 1..(i - 1) :
              VLt(records[i].meditation_score, records[j].meditation_score)

\* a mutant of idxmax that picks the last index with the largest score
idxmax_last(records) ==
    CHOOSE i \in 1..Len(records) :
        /\ \A j \in 1..Len(records) :
              VLe(records[j].meditation_score, records[i].meditation_score)
        /\ \A j \in (i + 1)..Len(records) :
              VLt(records[j].meditation_score, records[i].meditation_score)

\* meditation_scores.idxmax(): the first index with the largest score (no
\* score is NaN)
idxmax(records) ==
    CHOOSE i \in 1..Len(records) :
        /\ \A j \in 1..Len(records) :
              VLe(records[j].meditation_score, records[i].meditation_score)
        /\ \A j \in 1..(i - 1) :
              VLt(records[j].meditation_score, records[i].meditation_score)

\* strftime('%H:%M') of a time given in minutes: the day is dropped
strftime_HM(t) == <<(t \div 60) % 24, t % 60>>

\* segment_frame['label']: "HH:MM - HH:MM" of segment_start and segment_end
Label(record) == <<strftime_HM(record.segment_start), strftime_HM(record.segment_end)>>

\* the smallest / largest entry of a non-empty series without NaN
SeriesMin(clean) ==
    CHOOSE x \in {clean[i] : i \in 1..Len(clean)} :
        \A i \in 1..Len(clean) : VLe(x, clean[i])
SeriesMax(clean) ==
    CHOOSE x \in {clean[i] : i \in 1..Len(clean)} :
        \A i \in 1..Len(clean) : VLe(clean[i], x)

\* (series - min_val) / (max_val - min_val), or 0.5 in every row when
\* np.isclose(max_val, min_val)
MinMaxScaled(column, min_val, max_val) ==
    IF isclose(max_val, min_val)
    THEN [i \in 1..Len(column) |-> Half]
    ELSE [i \in 1..Len(column) |->
             VDiv(VSub(column[i], min_val), VSub(max_val, min_val))]

\* _min_max_normalize(series): rescaling to the range of the series itself
_min_max_normalize(column) ==
    IF dropna(column) = <<>> THEN [i \in 1..Len(column) |-> NaN]
    ELSE MinMaxScaled(column, SeriesMin(dropna(column)), SeriesMax(dropna(column)))

\* the columns of the segment frame that are normalized
numeric_cols ==
    {"fmtheta_mean", "iaf_mean", "alpha_mean", "beta_mean", "theta_alpha_ratio"}

\* the part of calculate_segment_analysis after the loop: normalized frame,
\* peak segment, display table and metadata.  peak_segment_index 0 stands
\* for None.
SegmentResult(records, comments, segment_minutes, session_start, session_end) ==
    LET normalized ==
            [col \in numeric_cols |->
                _min_max_normalize([i \in 1..Len(records) |-> records[i][col]])]
        scored == dropna([i \in 1..Len(records) |-> records[i].meditation_score])
        peak_idx == IF scored = <<>> THEN 0 ELSE idxmax(records)
        table ==
            [i \in 1..Len(records) |->
                [segment |-> records[i].segment_index,
                 time_range |-> Label(records[i]),
                 comment |-> comments[i],
                 peak |-> peak_idx # 0 /\ records[i].segment_index = peak_idx]]
        metadata ==
            [segment_minutes |-> segment_minutes,
             session_start |-> session_start,
             session_end |-> session_end,
             peak_segment_index |-> peak_idx,
             peak_time_range |->
                 IF peak_idx # 0 THEN Label(records[peak_idx]) ELSE <<>>,
             peak_score |->
                 IF peak_idx # 0 THEN records[peak_idx].meditation_score ELSE None]
    IN  [normalized |-> normalized, table |-> table, metadata |-> metadata,
         peak |-> peak_idx]

\* x - y and 10 ** x on DataFrame columns: NaN in, NaN out
ColumnSub(x, y) == VSub(x, y)
ColumnPow10(x) == IF isna(x) THEN NaN ELSE Pow10(x)

\* the ratio columns of create_statistical_dataframe: (name, numerator,
\* denominator)
RatioPairs ==
    {<<"alpha_beta", "Alpha", "Beta">>, <<"beta_theta", "Beta", "Theta">>,
     <<"theta_alpha", "Theta", "Alpha">>, <<"delta_beta", "Delta", "Beta">>,
     <<"gamma_theta", "Gamma", "Theta">>}

RatioNames == {pair[1] : pair \in RatioPairs}

\* one row of band_ratios_df from one row of band_powers_df
RatioRow(powers) ==
    [name \in RatioNames |->
        LET pair == CHOOSE q \in RatioPairs : q[1] = name
            bels == ColumnSub(powers[pair[2]], powers[pair[3]])
        IN  [bels |-> bels, linear |-> ColumnPow10(bels)]]

----------------------------------------------------------------------------
(* Inputs of the two pure functions                                        *)

\* how far outside its reference range a "far outside" raw value lies
FarOut == 1000

\* the reference ranges the normaliser is exercised on: the seven ranges of
\* calculate_meditation_score, two degenerate ranges (min = max), two ranges
\* with min < max whose bounds np.isclose does not tell apart, and two
\* ranges with min > max
NormRanges ==
    {<<IndicatorTable[key].min_val, IndicatorTable[key].max_val>> : key \in ScoreKeys}
    \cup {<<Int2Num(3), Int2Num(3)>>, <<Zero, Zero>>}
    \cup {<<Int2Num(200), Float(Num(200001, 1000))>>,
          <<Int2Num(100), Float(Num(100001, 1000))>>}
    \cup {<<Int2Num(10), Int2Num(1)>>, <<One, Float(Num(7, 10))>>}

\* the raw values tried on a range: missing, the two bounds, the midpoint, the
\* first quarter, just outside and far outside on either side
RawValues(min_val, max_val) ==
    LET width == VSub(max_val, min_val)
    IN  {NaN, min_val, max_val,
         VAdd(min_val, VDiv(width, Int2Num(2))),
         VAdd(min_val, VDiv(width, Int2Num(4))),
         VSub(min_val, One), VAdd(max_val, One),
         VSub(min_val, Int2Num(FarOut)), VAdd(max_val, Int2Num(FarOut))}

NormIdle ==
    [called |-> FALSE, value |-> None, min_val |-> Zero, max_val |-> Zero,
     reverse |-> FALSE, result |-> None]

\* at most this many indicators differ from the base profile of a score call
MaxVaried == 2

\* the values tried for one parameter: not supplied, NaN, and the raw values
\* at the minimum, the middle and the maximum of the reference range
ParamOption(param, i) ==
    LET key == CHOOSE kk \in ScoreKeys : IndicatorTable[kk].param = param
        lo == IndicatorTable[key].min_val
        hi == IndicatorTable[key].max_val
    IN  CASE i = 1 -> None
          [] i = 2 -> NaN
          [] i = 3 -> lo
          [] i = 4 -> VDiv(VAdd(lo, hi), Int2Num(2))
          [] i = 5 -> hi

\* base profiles: nothing supplied, everything at its range minimum,
\* everything at its range maximum
BaseProfiles == {[p \in Params |-> ParamOption(p, i)] : i \in {1, 3, 5}}

\* inputs whose weighted sum is 0.5 or 0.65 in fractions and one unit in the
\* last place less in binary64
RoundedArgs ==
    {[p \in Params |->
         CASE p = "fmtheta" -> pair[1]
           [] p = "alpha_beta_ratio" -> pair[2]
           [] OTHER -> None] :
        pair \in {<<Int2Num(100), Num(37, 4)>>, <<Num(349, 2), Num(71, 8)>>,
                  <<Num(245, 2), Num(47, 8)>>}}

ScoreArgs ==
    RoundedArgs \cup
    UNION {
        {[p \in Params |-> IF p \in S THEN ParamOption(p, c[p]) ELSE base[p]] :
            c \in [S -> 1..5]} :
        <<S, base>> \in {S \in SUBSET Params : Cardinality(S) <= MaxVaried}
                        \X BaseProfiles}

\* weight maps passed by the caller; None leaves the default in force.  The
\* second is Scenario C of the specification with A = fmtheta and B = faa;
\* in the third the key B is no entry of the breakdown; the last has a
\* negative weight.
WeightMaps ==
    {None,
     Dict(<< <<"fmtheta", Num(6, 10)>>, <<"faa", Num(4, 10)>> >>),
     Dict(<< <<"fmtheta", Num(6, 10)>>, <<"B", Num(4, 10)>> >>),
     Dict(<< <<"fmtheta", Num(79, 100)>>, <<"faa", Num(21, 100)>> >>),
     Dict(<< <<"fmtheta", Num(65, 100)>>, <<"faa", Num(35, 100)>> >>),
     Dict(<< <<"fmtheta", Num(64, 100)>>, <<"faa", Num(36, 100)>> >>),
     Dict(<< <<"fmtheta", Num(49, 100)>>, <<"faa", Num(51, 100)>> >>),
     Dict(<< <<"fmtheta", Num(12, 10)>>, <<"faa", Num(-2, 10)>> >>)}

ScoreIdle ==
    [called |-> FALSE, args |-> [p \in Params |-> None], weights |-> None,
     result |-> [total_score |-> Zero, level |-> "", scores |-> [key \in ScoreKeys |-> Half],
                 weights |-> None]]

\* the inputs of the two calls whose breakdowns are compared
PairArgs ==
    {[p \in Params |-> IF p \in {"fmtheta", "faa"} THEN ParamOption(p, c[p]) ELSE None] :
        c \in [{"fmtheta", "faa"} -> 1..5]}

----------------------------------------------------------------------------
(* Actions                                                                 *)

\* one call _normalize_indicator(value, min_val, max_val, reverse)
NormalizeCall ==
    /\ ~norm.called
    /\ \E r \in NormRanges, reverse \in BOOLEAN :
         \E value \in RawValues(r[1], r[2]) :
            norm' = [called |-> TRUE, value |-> value, min_val |-> r[1],
                     max_val |-> r[2], reverse |-> reverse,
                     result |-> _normalize_indicator(value, r[1], r[2], reverse)]
    /\ UNCHANGED <<extVars, dspVars, pairVars, score, score2, MEDITATION_SCORE_WEIGHTS, statVars, segVars>>

\* one call calculate_meditation_score(**args, weights=weights)
ScoreCall ==
    /\ ~score.called
    /\ \E args \in ScoreArgs, weights \in WeightMaps :
         score' = [called |-> TRUE, args |-> args, weights |-> weights,
                   result |-> calculate_meditation_score(
                                 args, weights, MEDITATION_SCORE_WEIGHTS)]
    /\ UNCHANGED <<extVars, dspVars, pairVars, norm, score2, MEDITATION_SCORE_WEIGHTS, statVars, segVars>>

\* two calls with the default weights, one after the other
FirstCall ==
    /\ ~score.called
    /\ \E args \in PairArgs :
         score' = [called |-> TRUE, args |-> args, weights |-> None,
                   result |-> calculate_meditation_score(
                                 args, None, MEDITATION_SCORE_WEIGHTS)]
    /\ UNCHANGED <<extVars, dspVars, pairVars, norm, score2, MEDITATION_SCORE_WEIGHTS, statVars, segVars>>

SecondCall ==
    /\ score.called /\ ~score2.called
    /\ \E args \in PairArgs :
         score2' = [called |-> TRUE, args |-> args, weights |-> None,
                    result |-> calculate_meditation_score(
                                  args, None, MEDITATION_SCORE_WEIGHTS)]
    /\ UNCHANGED <<extVars, dspVars, pairVars, norm, score, MEDITATION_SCORE_WEIGHTS, statVars, segVars>>

\* longest metric series summarised
MaxSeries == 10

\* the float after 1.0, 1 + 2^-52, and the float 2^-600, whose square is
\* below the smallest float
OnePlusUlp == [k |-> "f64", s |-> 1, m |-> <<1, 0, 0, 128>>, e |-> -52]
Tiny == [k |-> "f64", s |-> 1, m |-> <<0, 0, 0, 128>>, e |-> -652]

\* the entries a metric series is built from, in the order they are appended
SampleValues == <<NaN, Tiny, Int2Num(0), Int2Num(1), OnePlusUlp>>

SampleRank(x) == CHOOSE i \in 1..Len(SampleValues) : SampleValues[i] = x

NoSummary ==
    [site |-> "", kept |-> <<>>, mean |-> NaN, n_outliers |-> 0, reported |-> FALSE]

\* the entries of s are in the order of SampleValues, or in the reverse order
Ascending(s) ==
    \A i \in 1..(Len(s) - 1) : SampleRank(s[i]) <= SampleRank(s[i + 1])

Descending(s) ==
    \A i \in 1..(Len(s) - 1) : SampleRank(s[i]) >= SampleRank(s[i + 1])

\* the series grows by one entry.  A sum of floats depends on the order of
\* its terms, so a series is met in ascending and in descending order of its
\* entries
AppendSample ==
    /\ summary = NoSummary
    /\ Len(series) < MaxSeries
    /\ \E x \in {SampleValues[i] : i \in 1..Len(SampleValues)} :
         /\ Ascending(Append(series, x)) \/ Descending(Append(series, x))
         /\ series' = Append(series, x)
    /\ UNCHANGED <<extVars, dspVars, pairVars, summary, scoreVars, segVars>>

SummariseFmSlice ==
    /\ summary = NoSummary
    /\ summary' = [site |-> "segment_fmtheta"] @@ SegmentFmMean(series)
    /\ UNCHANGED <<extVars, dspVars, pairVars, series, scoreVars, segVars>>

SummariseBandColumn ==
    /\ summary = NoSummary
    /\ summary' = [site |-> "statistical_dataframe"] @@ BandStatistics(series)
    /\ UNCHANGED <<extVars, dspVars, pairVars, series, scoreVars, segVars>>

SummariseRatioColumn ==
    /\ summary = NoSummary
    /\ summary' = [site |-> "band_ratios"] @@ RatioStatistics(series)
    /\ UNCHANGED <<extVars, dspVars, pairVars, series, scoreVars, segVars>>

----------------------------------------------------------------------------
(* Inputs and steps of calculate_segment_analysis                          *)

\* most rows of a session, one row a minute
MaxRows == 4
\* TimeStamp of the first row (minutes)
SessionOrigin == 3
\* warmup_minutes and segment_minutes are drawn from 0..MaxWarmup, 0..MaxSegment
MaxWarmup == 2
MaxSegment == 2

\* what one minute of a session can hold: frontal-midline theta, the Alpha,
\* Beta and Theta band powers (Bels) and the alpha peak frequency (Hz), each
\* possibly missing
RowKinds ==
    {[fm |-> Int2Num(200), Alpha |-> Int2Num(2), Beta |-> Int2Num(1),
      Theta |-> Int2Num(3), iaf |-> Int2Num(10)],
     [fm |-> NaN, Alpha |-> NaN, Beta |-> NaN, Theta |-> NaN, iaf |-> NaN],
     [fm |-> Int2Num(125), Alpha |-> NaN, Beta |-> Int2Num(1),
      Theta |-> Int2Num(3), iaf |-> Num(41, 4)],
     [fm |-> Int2Num(50), Alpha |-> Int2Num(2), Beta |-> Int2Num(1),
      Theta |-> NaN, iaf |-> Int2Num(10)]}

Implementations == {"segment_analysis", "eeg"}

\* the optional arguments of a call: which of band_means, iaf_series and raw
\* are given (not None), use_mne_epochs, and whether the import of mne
\* succeeded (MNE_AVAILABLE).  src/lib/eeg.py takes neither raw nor
\* use_mne_epochs
CallOptions(impl) ==
    IF impl = "eeg"
    THEN {[given |-> g, use_mne_epochs |-> FALSE, MNE_AVAILABLE |-> FALSE] :
             g \in {{}, {"iaf_series"}, {"band_means"}}}
    ELSE {[given |-> g, use_mne_epochs |-> TRUE, MNE_AVAILABLE |-> TRUE] :
             g \in {{}, {"iaf_series"}, {"band_means"}, {"raw"},
                    {"raw", "iaf_series"}, {"raw", "band_means"}}}
         \cup {[given |-> {"raw"}, use_mne_epochs |-> FALSE, MNE_AVAILABLE |-> TRUE],
               [given |-> {"raw"}, use_mne_epochs |-> TRUE, MNE_AVAILABLE |-> FALSE]}

\* a mutant of SessionStart that ignores the warm-up
SessionStartAtFirstRow(original_start, warmup_minutes) == original_start

\* session_start = original_start + pd.Timedelta(minutes=warmup_minutes)
SessionStart(original_start, warmup_minutes) == original_start + warmup_minutes

CallIdle ==
    [impl |-> "", df_clean |-> <<>>, fmtheta_series |-> <<>>,
     segment_minutes |-> 0, warmup_minutes |-> 0, given |-> {},
     band_means |-> <<>>, iaf_series |-> <<>>, raw |-> <<>>,
     use_mne_epochs |-> FALSE, MNE_AVAILABLE |-> FALSE]

SegIdle ==
    [pc |-> "idle", error |-> "", path |-> "", df_clean |-> <<>>,
     fmtheta_series |-> <<>>, iaf_series |-> <<>>, band_series |-> <<>>,
     epochs |-> <<>>,
     session_start |-> 0, session_end |-> 0, current |-> 0,
     segment_starts |-> <<>>, records |-> <<>>, locals |-> <<>>,
     comments |-> <<>>, peak |-> 0, normalized |-> <<>>, table |-> <<>>,
     metadata |-> <<>>]

FrameIdle == [called |-> FALSE, band_powers_df |-> <<>>, band_ratios_df |-> <<>>]

\* the state after band_series is taken on the path of the call: from the
\* epochs of raw (the segment starts are then the timestamps of the epochs,
\* and an error of _calculate_band_power_from_epochs ends the call), from
\* band_means as it is given, or from the rows of df_clean that are kept
WithBandSeries(s, path, band_means, kept, from_epochs) ==
    IF path = "mne"
    THEN IF from_epochs.raised # ""
         THEN [s EXCEPT !.pc = "raised", !.error = from_epochs.raised,
                        !.path = path]
         ELSE [s EXCEPT !.pc = "segments", !.path = path,
                        !.band_series = from_epochs.band_series,
                        !.epochs = from_epochs.epochs,
                        !.segment_starts =
                            [i \in 1..Len(from_epochs.band_series.Alpha) |->
                                from_epochs.band_series.Alpha[i].t]]
    ELSE [s EXCEPT !.pc = "boundaries", !.path = path,
                   !.band_series =
                       IF path = "band_means" THEN band_means
                       ELSE [band \in SegmentBands |-> BandSeries(kept, band)]]

\* calculate_segment_analysis(df_clean, fmtheta_series, segment_minutes,
\* ...) up to the list of segment boundaries: validation, warm-up
\* exclusion, filtering of the series, band_series
SegmentAnalysisCallOn(row_kinds) ==
    /\ seg.pc = "idle" /\ ~frame.called
    /\ \E impl \in Implementations, n \in 0..MaxRows,
          segment_minutes \in 0..MaxSegment, warmup_minutes \in 0..MaxWarmup :
         \E kinds \in [1..n -> row_kinds], options \in CallOptions(impl) :
            LET df == [i \in 1..n |->
                          [TimeStamp |-> SessionOrigin + i - 1,
                           Alpha |-> kinds[i].Alpha, Beta |-> kinds[i].Beta,
                           Theta |-> kinds[i].Theta]]
                fm == [i \in 1..n |->
                          [t |-> SessionOrigin + i - 1, v |-> kinds[i].fm]]
                c == [impl |-> impl, df_clean |-> df, fmtheta_series |-> fm,
                      segment_minutes |-> segment_minutes,
                      warmup_minutes |-> warmup_minutes,
                      given |-> options.given,
                      band_means |->
                          IF "band_means" \in options.given
                          THEN [band \in SegmentBands |-> BandSeries(df, band)]
                          ELSE <<>>,
                      iaf_series |->
                          IF "iaf_series" \in options.given
                          THEN [i \in 1..n |->
                                   [t |-> SessionOrigin + i - 1, v |-> kinds[i].iaf]]
                          ELSE <<>>,
                      raw |->
                          IF "raw" \in options.given
                          THEN [i \in 1..n |->
                                   [time |-> i - 1,
                                    Alpha |-> kinds[i].Alpha, Beta |-> kinds[i].Beta,
                                    Theta |-> kinds[i].Theta]]
                          ELSE <<>>,
                      use_mne_epochs |-> options.use_mne_epochs,
                      MNE_AVAILABLE |-> options.MNE_AVAILABLE]
                path == BandPath(impl, c.given, c.use_mne_epochs, c.MNE_AVAILABLE)
                session_start == SessionStart(df[1].TimeStamp, warmup_minutes)
                session_end == df[n].TimeStamp
                kept == SelectSeq(df, LAMBDA r : r.TimeStamp >= session_start)
            IN  /\ call' = c
                /\ IF segment_minutes <= 0
                   THEN seg' = [seg EXCEPT !.pc = "raised",
                                           !.error = "segment_minutes"]
                   ELSE IF n = 0
                   THEN seg' = [seg EXCEPT !.pc = "raised",
                                           !.error = "no_valid_timestamp"]
                   ELSE IF kept = <<>>
                   THEN seg' = [seg EXCEPT !.pc = "raised",
                                           !.error = "no_data_after_warmup",
                                           !.session_start = session_start,
                                           !.session_end = session_end]
                   ELSE seg' = WithBandSeries(
                                  [seg EXCEPT !.df_clean = kept,
                                              !.fmtheta_series = FromStart(fm, session_start),
                                              !.iaf_series = FromStart(c.iaf_series, session_start),
                                              !.session_start = session_start,
                                              !.session_end = session_end,
                                              !.current = session_start],
                                  path, c.band_means, kept,
                                  IF path = "mne"
                                  THEN _calculate_band_power_from_epochs(
                                          c.raw, segment_minutes,
                                          df[1].TimeStamp, warmup_minutes)
                                  ELSE [raised |-> ""])
    /\ UNCHANGED <<extVars, dspVars, pairVars, scoreVars, statVars, frame>>

\* a call on a session of any of the row kinds
SegmentAnalysisCall == SegmentAnalysisCallOn(RowKinds)

\* a call on a session whose rows all hold the same complete data: the
\* segment boundaries depend on the timestamps only
SegmentAnalysisCallComplete ==
    SegmentAnalysisCallOn({CHOOSE kind \in RowKinds :
                              \A c \in DOMAIN kind : notna(kind[c])})

\* a mutant of BoundaryLoopRuns that also runs at session_end
BoundaryLoopRunsInclusive(current, session_end) == current <= session_end

\* the condition of "while current < session_end"
BoundaryLoopRuns(current, session_end) == current < session_end

\* while current < session_end: segment_starts.append(current); current += delta
BoundaryStep ==
    /\ seg.pc = "boundaries"
    /\ BoundaryLoopRuns(seg.current, seg.session_end)
    /\ seg' = [seg EXCEPT !.segment_starts = Append(@, seg.current),
                          !.current = @ + call.segment_minutes]
    /\ UNCHANGED <<extVars, dspVars, pairVars, scoreVars, statVars, call, frame>>

\* the loop ends; if not segment_starts: segment_starts = [session_start]
BoundaryExit ==
    /\ seg.pc = "boundaries"
    /\ ~BoundaryLoopRuns(seg.current, seg.session_end)
    /\ seg' = [seg EXCEPT !.pc = "segments",
                          !.segment_starts =
                              IF @ = <<>> THEN <<seg.session_start>> ELSE @]
    /\ UNCHANGED <<extVars, dspVars, pairVars, scoreVars, statVars, call, frame>>

\* one pass of the loop over segment_starts
SegmentStep ==
    /\ seg.pc = "segments"
    /\ Len(seg.records) < Len(seg.segment_starts)
    /\ LET idx == Len(seg.records) + 1
           r == SegmentRecord(call.impl, seg.path, idx, seg.segment_starts[idx],
                              call.segment_minutes, seg.session_end,
                              seg.df_clean, seg.fmtheta_series,
                              "iaf_series" \in call.given, seg.iaf_series,
                              seg.band_series, MEDITATION_SCORE_WEIGHTS)
       IN  seg' = [seg EXCEPT !.records = Append(@, r.record),
                              !.locals = Append(@, r.locals),
                              !.comments = Append(@, r.comment)]
    /\ UNCHANGED <<extVars, dspVars, pairVars, scoreVars, statVars, call, frame>>

\* after the loop: the peak segment is chosen and the result is returned
Finalize ==
    /\ seg.pc = "segments"
    /\ Len(seg.records) = Len(seg.segment_starts)
    /\ LET r == SegmentResult(seg.records, seg.comments, call.segment_minutes,
                               seg.session_start, seg.session_end)
       IN  seg' = [seg EXCEPT !.pc = "returned", !.peak = r.peak,
                              !.normalized = r.normalized, !.table = r.table,
                              !.metadata = r.metadata]
    /\ UNCHANGED <<extVars, dspVars, pairVars, scoreVars, statVars, call, frame>>

\* most epochs of a band power table
MaxEpochs == 2

BandNames == {"Delta", "Theta", "Alpha", "Beta", "Gamma"}

\* the power of a band (Bels) in one epoch when it is not missing
BandLevel(band) ==
    CASE band = "Delta" -> Int2Num(4)
      [] band = "Theta" -> Int2Num(3)
      [] band = "Alpha" -> Int2Num(2)
      [] band = "Beta" -> Int2Num(1)
      [] band = "Gamma" -> Int2Num(0)

\* the ratio stage of create_statistical_dataframe on a band power table
StatisticalDataframeCall ==
    /\ seg.pc = "idle" /\ ~frame.called
    /\ \E n \in 1..MaxEpochs :
         \E present \in [1..n -> SUBSET BandNames] :
            LET powers == [i \in 1..n |->
                              [band \in BandNames |->
                                  IF band \in present[i] THEN BandLevel(band)
                                  ELSE NaN]]
            IN  frame' = [called |-> TRUE, band_powers_df |-> powers,
                          band_ratios_df |-> [i \in 1..n |-> RatioRow(powers[i])]]
    /\ UNCHANGED <<extVars, dspVars, pairVars, scoreVars, statVars, call, seg>>

SpectrumIdle ==
    [site |-> "", sfreq |-> 0, fmax |-> Zero, freqs |-> {}, band_powers |-> <<>>]

EnvelopeIdle ==
    [pc |-> "idle", metric |-> "", resample_interval |-> 0,
     smoothing_seconds |-> 0, rolling_window_seconds |-> 0,
     input |-> <<>>, upper_bound |-> NaN, clipped |-> <<>>,
     power |-> <<>>, steps |-> <<>>]

PafIdle ==
    [called |-> FALSE, raised |-> "", freqs |-> {}, alpha_range |-> <<0, 0>>,
     psds |-> <<>>, alpha_freqs |-> {}, paf_by_channel |-> <<>>, iaf |-> NaN]

RatiosIdle == [site |-> "", powers |-> <<>>, stored |-> <<>>]

\* shared: result['weights'] of the first call is the object
\* MEDITATION_SCORE_WEIGHTS; wrote: the caller assigned an item of it
CallerIdle == [shared |-> FALSE, wrote |-> FALSE]

ReportIdle ==
    [pc |-> "idle", mne_dict |-> FALSE, tfr_primary |-> FALSE,
     fmtheta_result |-> FALSE, outcome |-> <<>>, results |-> {},
     segment_table |-> <<>>, raised |-> "", session_score |-> None, session_level |-> "",
     session_score_breakdown |-> <<>>, passed |-> {}]

ColumnsIdle == [called |-> FALSE, k |-> 0, first |-> <<>>, second |-> <<>>,
                normalized_first |-> <<>>, normalized_second |-> <<>>]

Idle ==
    /\ norm = NormIdle
    /\ score = ScoreIdle
    /\ score2 = ScoreIdle
    /\ MEDITATION_SCORE_WEIGHTS = DefaultWeights
    /\ series = <<>>
    /\ summary = NoSummary
    /\ call = CallIdle
    /\ seg = SegIdle
    /\ frame = FrameIdle
    /\ runs = <<>>
    /\ columns = ColumnsIdle
    /\ spectrum = SpectrumIdle
    /\ envelope = EnvelopeIdle
    /\ paf = PafIdle
    /\ ratios = RatiosIdle
    /\ caller = CallerIdle
    /\ report = ReportIdle

Next ==
    \/ SegmentAnalysisCall
    \/ BoundaryStep
    \/ BoundaryExit
    \/ SegmentStep
    \/ Finalize
    \/ StatisticalDataframeCall

Spec == Idle /\ [][Next]_vars

\* a started call runs on: each loop of calculate_segment_analysis takes its
\* next step while it has one
SpecTerminates ==
    /\ Idle
    /\ [][SegmentAnalysisCallComplete \/ BoundaryStep \/ BoundaryExit]_vars
    /\ WF_vars(BoundaryStep) /\ WF_vars(BoundaryExit)

SpecNormalize == Idle /\ [][NormalizeCall]_vars

SpecScore == Idle /\ [][ScoreCall]_vars

SpecScorePair == Idle /\ [][FirstCall \/ SecondCall]_vars

SpecStats ==
    Idle /\ [][AppendSample \/ SummariseFmSlice \/ SummariseBandColumn
                  \/ SummariseRatioColumn]_vars

----------------------------------------------------------------------------
(* Repeated runs of create_statistical_dataframe                           *)

\* the wall clock reads 0..MaxClock (minutes)
MaxClock == 2

\* the Bels tables of create_statistical_dataframe for the band powers of
\* the epochs of raw: the index is session_start + warmup + i * duration,
\* and session_start = None (here None) is replaced by pd.Timestamp.now()
create_statistical_dataframe(powers, segment_minutes, warmup_minutes, session_start, now) ==
    LET start == IF session_start = None THEN now ELSE session_start.n
        timestamps ==
            [i \in 1..Len(powers) |->
                start + warmup_minutes + (i - 1) * segment_minutes]
    IN  [timestamps |-> timestamps,
         band_powers |-> powers,
         band_ratios |-> [i \in 1..Len(powers) |-> RatioRow(powers[i])]]

\* the arguments of a run: raw (through the band powers of its epochs),
\* segment_minutes, warmup_minutes and session_start, given or left at None
RunArgs ==
    {[powers |-> [i \in 1..n |->
                     [band \in BandNames |->
                         IF band \in present[i] THEN BandLevel(band) ELSE NaN]],
      segment_minutes |-> m, warmup_minutes |-> w, session_start |-> t] :
        n \in 1..MaxEpochs,
        present \in [1..MaxEpochs -> {BandNames, BandNames \ {"Alpha"}, {}}],
        m \in 1..2, w \in 0..1, t \in {None, Int2Num(SessionOrigin)}}

\* the first run, at some reading of the wall clock
FirstRun ==
    /\ runs = <<>>
    /\ \E args \in RunArgs, now \in 0..MaxClock :
         runs' = <<[args |-> args, now |-> now,
                    result |-> create_statistical_dataframe(
                                  args.powers, args.segment_minutes,
                                  args.warmup_minutes, args.session_start, now)]>>
    /\ UNCHANGED <<extVars, dspVars, scoreVars, statVars, segVars, columns>>

\* a second run with the arguments of the first, not earlier than the first
SecondRun ==
    /\ Len(runs) = 1
    /\ \E now \in runs[1].now..MaxClock :
         LET args == runs[1].args
         IN  runs' = Append(runs,
                        [args |-> args, now |-> now,
                         result |-> create_statistical_dataframe(
                                       args.powers, args.segment_minutes,
                                       args.warmup_minutes, args.session_start, now)])
    /\ UNCHANGED <<extVars, dspVars, scoreVars, statVars, segVars, columns>>

SpecRuns == Idle /\ [][FirstRun \/ SecondRun]_vars

\* most segments of a session whose metric column is normalized
MaxColumn == 3

\* the values a metric takes in a segment
ColumnValues == {NaN, Int2Num(50), Int2Num(125), Int2Num(200)}

\* the same metric column of two sessions that agree on segment k and may
\* differ on the other segments, each normalized as in the result's
\* 'normalized' frame
NormalizeColumns ==
    /\ ~columns.called
    /\ \E n \in 1..MaxColumn :
         \E k \in 1..n, first \in [1..n -> ColumnValues],
            second \in [1..n -> ColumnValues] :
            /\ first[k] = second[k]
            /\ columns' = [called |-> TRUE, k |-> k, first |-> first,
                           second |-> second,
                           normalized_first |-> _min_max_normalize(first),
                           normalized_second |-> _min_max_normalize(second)]
    /\ UNCHANGED <<extVars, dspVars, scoreVars, statVars, segVars, runs>>

SpecColumns == Idle /\ [][NormalizeColumns]_vars

----------------------------------------------------------------------------
(* Welch PSD: upper frequency and band aggregation                         *)

\* the upper frequency handed to compute_psd(method='welch') for a recording
\* sampled at sfreq Hz: calculate_psd(raw, fmax=fmax_arg) in frequency.py,
\* create_statistical_dataframe and _calculate_band_power_from_epochs
WelchFmax(site, sfreq, fmax_arg) ==
    LET nyquist == Num(sfreq, 2)
    IN  IF site = "calculate_psd"
        THEN NumMin(fmax_arg,
                    NumMax(Sub(nyquist, Num(1, 1000000)),
                           Mul(nyquist, Num(9, 10))))
        ELSE NumMin(Int2Num(50), Mul(nyquist, Num(95, 100)))

\* bands of create_statistical_dataframe and _calculate_band_power_from_epochs
BandTable(site) ==
    IF site = "create_statistical_dataframe"
    THEN [band \in BandNames |->
             CASE band = "Delta" -> <<1, 4>>
               [] band = "Theta" -> <<4, 8>>
               [] band = "Alpha" -> <<8, 13>>
               [] band = "Beta" -> <<13, 30>>
               [] band = "Gamma" -> <<30, 50>>]
    ELSE [band \in {"Theta", "Alpha", "Beta"} |->
             CASE band = "Theta" -> <<4, 8>>
               [] band = "Alpha" -> <<8, 13>>
               [] band = "Beta" -> <<13, 30>>]

\* a mutant of freq_mask that closes the band at its upper edge
freq_mask_closed(freqs, fmin_band, fmax_band) ==
    {f \in freqs : Le(Int2Num(fmin_band), f) /\ Le(f, Int2Num(fmax_band))}

\* freq_mask = (freqs >= fmin_band) & (freqs < fmax_band)
freq_mask(freqs, fmin_band, fmax_band) ==
    {f \in freqs : Le(Int2Num(fmin_band), f) /\ Lt(f, Int2Num(fmax_band))}

\* 10 * np.log10(band_power + 1e-12): NaN stays NaN; the logarithm of a
\* number is kept as the tagged number it is taken of
log10_floor(band_power) ==
    IF isna(band_power) THEN NaN
    ELSE [k |-> "10log10", n |-> band_power.n, d |-> band_power.d]

\* psds[:, :, freq_mask].mean(): the mean of no bin is NaN
BandPower(psds, bins) ==
    IF bins = {} THEN NaN
    ELSE Div(SumOver(bins, psds), Int2Num(Cardinality(bins)))

\* the band powers of one epoch and one channel
BandPowers(site, freqs, psds) ==
    [band \in DOMAIN BandTable(site) |->
        LET bins == freq_mask(freqs, BandTable(site)[band][1], BandTable(site)[band][2])
            band_power == BandPower(psds, bins)
        IN  [bins |-> bins, band_power |-> band_power,
             band_power_bels |-> log10_floor(band_power)]]

\* sampling rates of the recordings (Hz)
SamplingRates == {20, 50, 64, 100, 256}

\* distance between two PSD bins (Hz)
Resolutions == {Int2Num(1), Int2Num(2), Int2Num(4)}

\* the bins compute_psd(fmin, fmax) returns: multiples of the resolution in
\* [fmin, fmax]
MaxBin == 50
PsdFreqs(resolution, fmin, fmax) ==
    {f \in {Mul(Int2Num(i), resolution) : i \in 0..MaxBin} :
        Le(fmin, f) /\ Le(f, fmax)}

\* shapes of a power spectrum
PsdShapes == {"flat", "zero", "ramp", "alpha_peak", "low_only"}
PsdValue(shape, f) ==
    CASE shape = "flat" -> One
      [] shape = "zero" -> Zero
      [] shape = "ramp" -> f
      [] shape = "alpha_peak" -> IF f = Int2Num(8) THEN Int2Num(100) ELSE One
      [] shape = "low_only" -> IF Lt(f, Int2Num(13)) THEN Int2Num(2) ELSE Zero

\* calculate_psd(raw, fmax=fmax_arg)
CalculatePsd ==
    /\ spectrum.site = ""
    /\ \E sfreq \in SamplingRates, fmax_arg \in {Int2Num(30), Int2Num(50)} :
         spectrum' = [site |-> "calculate_psd", sfreq |-> sfreq,
                      fmax |-> WelchFmax("calculate_psd", sfreq, fmax_arg),
                      freqs |-> {}, band_powers |-> <<>>]
    /\ UNCHANGED <<extVars, scoreVars, statVars, segVars, pairVars, envelope>>

\* the PSD and band power stage of create_statistical_dataframe and of
\* _calculate_band_power_from_epochs
BandPowerCall ==
    /\ spectrum.site = ""
    /\ \E site \in {"create_statistical_dataframe", "_calculate_band_power_from_epochs"},
          sfreq \in SamplingRates, resolution \in Resolutions, shape \in PsdShapes :
         LET fmax == WelchFmax(site, sfreq, None)
             freqs == PsdFreqs(resolution, One, fmax)
             psds == [f \in freqs |-> PsdValue(shape, f)]
         IN  spectrum' = [site |-> site, sfreq |-> sfreq, fmax |-> fmax,
                          freqs |-> freqs,
                          band_powers |-> BandPowers(site, freqs, psds)]
    /\ UNCHANGED <<extVars, scoreVars, statVars, segVars, pairVars, envelope>>

SpecSpectrum == Idle /\ [][CalculatePsd \/ BandPowerCall]_vars

----------------------------------------------------------------------------
(* Post-processing of the envelope power: calculate_frontal_theta and      *)
(* calculate_frontal_asymmetry.  A series is a sequence of [t, v]; t is the  *)
(* time of day of the sample in seconds since midnight of the day the       *)
(* recording starts (the DatetimeIndex start_time + times).                 *)

\* the values of a sequence in increasing order
RECURSIVE SortValues(_)
SortValues(values) ==
    IF values = <<>> THEN <<>>
    ELSE LET i == CHOOSE j \in 1..Len(values) :
                     \A l \in 1..Len(values) : Le(values[j], values[l])
         IN  <<values[i]>>
             \o SortValues([l \in 1..(Len(values) - 1) |->
                               IF l < i THEN values[l] ELSE values[l + 1]])

\* Series.median(): NaN entries are skipped, an empty series gives NaN
median(values) ==
    LET sorted == SortValues(dropna(values))
        n == Len(sorted)
    IN  IF n = 0 THEN NaN
        ELSE IF n % 2 = 1 THEN sorted[(n + 1) \div 2]
        ELSE Div(Add(sorted[n \div 2], sorted[n \div 2 + 1]), Int2Num(2))

\* Series.quantile(q) with q = q_num / 10, linear interpolation between the
\* two nearest order statistics
quantile(values, q_num) ==
    LET sorted == SortValues(dropna(values))
        n == Len(sorted)
        lo == (q_num * (n - 1)) \div 10
        frac == Num((q_num * (n - 1)) % 10, 10)
    IN  IF n = 0 THEN NaN
        ELSE IF lo + 1 >= n THEN sorted[n]
        ELSE Add(sorted[lo + 1], Mul(frac, Sub(sorted[lo + 2], sorted[lo + 1])))

\* a mutant of SeriesClip that discards the samples above the upper bound
SeriesClipDiscard(ts, lower, upper) ==
    SelectSeq(ts, LAMBDA e : Le(lower, e.v) /\ Le(e.v, upper))

\* Series.clip(lower=lower, upper=upper): every sample stays in place; a NaN
\* bound does not clip
SeriesClip(ts, lower, upper) ==
    [i \in 1..Len(ts) |->
        [t |-> ts[i].t,
         v |-> IF isna(ts[i].v) \/ isna(upper) THEN ts[i].v
               ELSE clip(ts[i].v, lower, upper)]]

\* Series.resample(interval).median() with the defaults of pandas
\* (origin='start_day', closed='left', label='left'): the bins are cut from
\* midnight of the first day, not from the first sample, so they are
\* [j * interval, (j + 1) * interval) in seconds since midnight, from the bin
\* of the first sample to the bin of the last one; each entry is labelled by
\* the left edge of its bin, and a bin without samples gives NaN
SeriesResampleMedian(ts, interval) ==
    LET first == ts[1].t \div interval
        last == ts[Len(ts)].t \div interval
    IN  [j \in 1..(last - first + 1) |->
            LET left == (first + j - 1) * interval
            IN  [t |-> left,
                 v |-> median(Values(Window(ts, left, left + interval)))]]

\* the samples of the rolling window of width seconds that ends at t: the
\* window is (t - width, t], it trails the sample it produces
RollingWindow(ts, t, width) ==
    SelectSeq(ts, LAMBDA e : e.t > t - width /\ e.t <= t)

\* Series.rolling(window=..., min_periods=1).mean()
SeriesRollingMean(ts, width) ==
    [i \in 1..Len(ts) |->
        [t |-> ts[i].t, v |-> mean(Values(RollingWindow(ts, ts[i].t, width)))]]

\* Series.rolling(window=..., min_periods=1).median()
SeriesRollingMedian(ts, width) ==
    [i \in 1..Len(ts) |->
        [t |-> ts[i].t, v |-> median(Values(RollingWindow(ts, ts[i].t, width)))]]

\* most samples of an envelope power series, one sample a second
MaxSamples == 4

\* latest second after midnight at which a recording starts: the start is on
\* a bin edge of the 2 s resampling (0) or inside a bin (1)
MaxStartSecond == 1

\* values of the squared envelope (power is non-negative)
PowerValues == {Int2Num(0), Int2Num(1), Int2Num(100)}

\* max(int(seconds), 1) for a window given in whole seconds
WindowSeconds(seconds) == IF seconds > 1 THEN seconds ELSE 1

\* calculate_frontal_theta / calculate_frontal_asymmetry up to the power
\* series: power_df is the squared envelope; for Fm theta the channels are
\* averaged into power_series.  start_time is df['TimeStamp'].min(), here
\* start_second seconds after midnight; resample_interval 0 stands for '' or
\* None.
EnvelopeCall ==
    /\ envelope.pc = "idle"
    /\ \E metric \in {"fmtheta", "faa"}, n \in 1..MaxSamples,
          start_second \in 0..MaxStartSecond, resample_interval \in {0, 2}, smoothing_seconds \in {0, 6},
          rolling_window_seconds \in {0, 8} :
         \E values \in [1..n -> PowerValues] :
            LET time_index == [i \in 1..n |-> start_second + i - 1]
                power_series == [i \in 1..n |-> [t |-> time_index[i], v |-> values[i]]]
                ones == [i \in 1..n |-> [t |-> time_index[i], v |-> One]]
            IN  envelope' =
                    [pc |-> "power", metric |-> metric,
                     resample_interval |-> resample_interval,
                     smoothing_seconds |-> smoothing_seconds,
                     rolling_window_seconds |-> rolling_window_seconds,
                     input |-> power_series, upper_bound |-> NaN, clipped |-> <<>>,
                     power |-> IF metric = "fmtheta"
                               THEN [c \in {"mean"} |-> power_series]
                               ELSE [c \in {"RAW_AF7", "RAW_AF8"} |->
                                        IF c = "RAW_AF7" THEN power_series ELSE ones],
                     steps |-> <<>>]
    /\ UNCHANGED <<extVars, scoreVars, statVars, segVars, pairVars, spectrum>>

\* calculate_frontal_theta only: the power power_series is clipped to
\* [0, 90th percentile]
PercentileClip ==
    /\ envelope.pc = "power"
    /\ envelope.metric = "fmtheta"
    /\ LET power_series == envelope.power["mean"]
           upper_bound == quantile(Values(power_series), 9)
           clipped == SeriesClip(power_series, Zero, upper_bound)
       IN  envelope' = [envelope EXCEPT
                           !.pc = "clipped",
                           !.upper_bound = upper_bound,
                           !.clipped = clipped,
                           !.power = [c \in {"mean"} |-> clipped],
                           !.steps = Append(@, [name |-> "clip", center |-> FALSE])]
    /\ UNCHANGED <<extVars, scoreVars, statVars, segVars, pairVars, spectrum>>

\* if resample_interval: resample(resample_interval).median()
Resample ==
    /\ \/ envelope.pc = "clipped"
       \/ envelope.pc = "power" /\ envelope.metric = "faa"
    /\ envelope' =
          IF envelope.resample_interval # 0
          THEN [envelope EXCEPT
                   !.pc = "resampled",
                   !.power = [c \in DOMAIN @ |->
                                 SeriesResampleMedian(@[c], envelope.resample_interval)],
                   !.steps = Append(@, [name |-> "resample", center |-> FALSE])]
          ELSE [envelope EXCEPT !.pc = "resampled"]
    /\ UNCHANGED <<extVars, scoreVars, statVars, segVars, pairVars, spectrum>>

\* if smoothing_seconds > 0: rolling(window, min_periods=1).mean()
RollingMean ==
    /\ envelope.pc = "resampled"
    /\ envelope' =
          IF envelope.smoothing_seconds > 0
          THEN [envelope EXCEPT
                   !.pc = "smoothed",
                   !.power = [c \in DOMAIN @ |->
                                 SeriesRollingMean(@[c],
                                     WindowSeconds(envelope.smoothing_seconds))],
                   !.steps = Append(@, [name |-> "rolling_mean", center |-> FALSE])]
          ELSE [envelope EXCEPT !.pc = "smoothed"]
    /\ UNCHANGED <<extVars, scoreVars, statVars, segVars, pairVars, spectrum>>

\* if rolling_window_seconds > 0: rolling(window, min_periods=1).median()
RollingMedian ==
    /\ envelope.pc = "smoothed"
    /\ envelope' =
          IF envelope.rolling_window_seconds > 0
          THEN [envelope EXCEPT
                   !.pc = "done",
                   !.power = [c \in DOMAIN @ |->
                                 SeriesRollingMedian(@[c],
                                     WindowSeconds(envelope.rolling_window_seconds))],
                   !.steps = Append(@, [name |-> "rolling_median", center |-> FALSE])]
          ELSE [envelope EXCEPT !.pc = "done"]
    /\ UNCHANGED <<extVars, scoreVars, statVars, segVars, pairVars, spectrum>>

SpecEnvelope ==
    Idle /\ [][EnvelopeCall \/ PercentileClip \/ Resample \/ RollingMean
                  \/ RollingMedian]_vars

----------------------------------------------------------------------------
(* calculate_paf: peak alpha frequency of each channel and their mean       *)

\* a mutant of argmax that returns the last of several maximal bins
argmax_last(bins, psd) ==
    CHOOSE f \in bins :
        /\ \A g \in bins : Le(psd[g], psd[f])
        /\ \A g \in bins : psd[g] = psd[f] => Le(g, f)

\* alpha_freqs[alpha_psd.argmax()]: ndarray.argmax returns the first of
\* several maximal entries, and the bins are in increasing order
argmax(bins, psd) ==
    CHOOSE f \in bins :
        /\ \A g \in bins : Le(psd[g], psd[f])
        /\ \A g \in bins : psd[g] = psd[f] => Le(f, g)

\* alpha_mask = (freqs >= alpha_low) & (freqs <= alpha_high)
alpha_mask(freqs, alpha_range) ==
    {f \in freqs : Le(Int2Num(alpha_range[1]), f) /\ Le(f, Int2Num(alpha_range[2]))}

\* most channels of a recording
MaxChannels == 2

\* calculate_paf(psd_dict, alpha_range); psd_dict is what calculate_psd
\* returns for a recording sampled at sfreq: bins from 0 Hz up to fmax and,
\* for each channel, a finite power at each bin.  argmax of an empty array
\* raises ValueError.
PafCall ==
    /\ ~paf.called
    /\ \E sfreq \in SamplingRates, resolution \in Resolutions,
          alpha_range \in {<<8, 13>>, <<9, 11>>}, n \in 1..MaxChannels :
         \E shapes \in [1..n -> PsdShapes] :
            LET freqs == PsdFreqs(resolution, Zero,
                                  WelchFmax("calculate_psd", sfreq, Int2Num(50)))
                psds == [i \in 1..n |-> [f \in freqs |-> PsdValue(shapes[i], f)]]
                alpha_freqs == alpha_mask(freqs, alpha_range)
                paf_results == [i \in 1..n |->
                                   LET peak == argmax(alpha_freqs, psds[i])
                                   IN  [PAF |-> peak, Power |-> psds[i][peak]]]
                all_pafs == [i \in 1..n |-> paf_results[i].PAF]
            IN  paf' = IF alpha_freqs = {}
                       THEN [PafIdle EXCEPT !.called = TRUE, !.raised = "ValueError",
                                            !.freqs = freqs, !.psds = psds,
                                            !.alpha_range = alpha_range]
                       ELSE [called |-> TRUE, raised |-> "", freqs |-> freqs,
                             alpha_range |-> alpha_range, psds |-> psds,
                             alpha_freqs |-> alpha_freqs,
                             paf_by_channel |-> paf_results,
                             iaf |-> mean(all_pafs)]
    /\ UNCHANGED <<scoreVars, statVars, segVars, pairVars, dspVars, ratios, caller, report>>

SpecPaf == Idle /\ [][PafCall]_vars

----------------------------------------------------------------------------
(* The ratio calculator on extreme operands                                 *)

\* log powers far apart: the linear ratios they give span 10^-9 .. 10^9
ExtremeBels == {NaN, Int2Num(-4), Int2Num(0), Int2Num(1), Int2Num(5)}

\* the ratios of one segment of calculate_segment_analysis from its band
\* means
SegmentRatios ==
    /\ ratios.site = ""
    /\ \E powers \in [{"Alpha", "Beta", "Theta"} -> ExtremeBels] :
         ratios' =
            [site |-> "calculate_segment_analysis", powers |-> powers,
             stored |->
                [theta_alpha_ratio |-> theta_alpha_ratio(powers.Alpha, powers.Theta),
                 alpha_beta_ratio_log |-> alpha_beta_ratio_log(powers.Alpha, powers.Beta),
                 alpha_beta_ratio |-> alpha_beta_ratio(powers.Alpha, powers.Beta)]]
    /\ UNCHANGED <<scoreVars, statVars, segVars, pairVars, dspVars, paf, caller, report>>

\* one row of band_ratios_df of create_statistical_dataframe from one row of
\* band_powers_df
FrameRatios ==
    /\ ratios.site = ""
    /\ \E powers \in [BandNames -> ExtremeBels] :
         ratios' = [site |-> "create_statistical_dataframe", powers |-> powers,
                    stored |-> RatioRow(powers)]
    /\ UNCHANGED <<scoreVars, statVars, segVars, pairVars, dspVars, paf, caller, report>>

SpecRatios == Idle /\ [][SegmentRatios \/ FrameRatios]_vars

----------------------------------------------------------------------------
(* Callers that change the dictionary calculate_meditation_score returned   *)

\* what a caller writes into an item of a returned dictionary
WrittenValues == {Zero, One}

\* r = calculate_meditation_score(**args): weights is None, so the function
\* binds weights to MEDITATION_SCORE_WEIGHTS and returns that object as
\* r['weights']
DefaultCall ==
    /\ ~score.called
    /\ \E args \in PairArgs :
         score' = [called |-> TRUE, args |-> args, weights |-> None,
                   result |-> calculate_meditation_score(
                                 args, None, MEDITATION_SCORE_WEIGHTS)]
    /\ caller' = [caller EXCEPT !.shared = TRUE]
    /\ UNCHANGED <<dspVars, pairVars, norm, score2, MEDITATION_SCORE_WEIGHTS,
                   statVars, segVars, paf, ratios, report>>

\* r['weights'][key] = value: an item assignment on the object r['weights']
\* refers to
WriteWeightsItem ==
    /\ score.called /\ ~score2.called
    /\ \E key \in {"fmtheta", "faa"}, value \in WrittenValues :
         LET written == SetItem(score.result.weights, key, value)
         IN  /\ score' = [score EXCEPT !.result.weights = written]
             /\ MEDITATION_SCORE_WEIGHTS' =
                   IF caller.shared THEN written ELSE MEDITATION_SCORE_WEIGHTS
    /\ caller' = [caller EXCEPT !.wrote = @ \/ caller.shared]
    /\ UNCHANGED <<dspVars, pairVars, norm, score2, statVars, segVars, paf,
                   ratios, report>>

\* r['scores'][key] = value: scores is a dictionary built by the call
WriteScoresItem ==
    /\ score.called /\ ~score2.called
    /\ \E key \in {"fmtheta", "faa"}, value \in WrittenValues :
         score' = [score EXCEPT !.result.scores[key] = value]
    /\ UNCHANGED <<dspVars, pairVars, norm, score2, MEDITATION_SCORE_WEIGHTS,
                   statVars, segVars, paf, ratios, caller, report>>

\* r['weights'] = {}: the entry is bound to a new dictionary
RebindWeights ==
    /\ score.called /\ ~score2.called /\ caller.shared
    /\ score' = [score EXCEPT !.result.weights = Dict(<<>>)]
    /\ caller' = [caller EXCEPT !.shared = FALSE]
    /\ UNCHANGED <<dspVars, pairVars, norm, score2, MEDITATION_SCORE_WEIGHTS,
                   statVars, segVars, paf, ratios, report>>

\* a later call with the same inputs and the default weights
LaterCall ==
    /\ score.called /\ ~score2.called
    /\ score2' = [called |-> TRUE, args |-> score.args, weights |-> None,
                  result |-> calculate_meditation_score(
                                score.args, None, MEDITATION_SCORE_WEIGHTS)]
    /\ UNCHANGED <<dspVars, pairVars, norm, score, MEDITATION_SCORE_WEIGHTS,
                   statVars, segVars, paf, ratios, caller, report>>

SpecCaller ==
    Idle /\ [][DefaultCall \/ WriteWeightsItem \/ WriteScoresItem
                  \/ RebindWeights \/ LaterCall]_vars

----------------------------------------------------------------------------
(* run_full_analysis (src/scripts/generate_report.py): the optional stages, *)
(* the session score and the hand-over to the report.  results is the set   *)
(* of keys of the results dictionary.                                       *)

\* the columns of the statistics table each stage stores in results;
\* "shihyou", "atai" and "tani" are the columns 指標, 値 and 単位
StatsColumns(key) ==
    CASE key = "frontal_theta_stats" -> {"Metric", "Value", "Unit"}
      [] key = "band_ratios_stats" -> {"Metric", "Value", "Unit", "DisplayName"}
      [] key = "faa_stats" -> {"shihyou", "atai", "tani"}
      [] key = "spectral_entropy_stats" -> {"shihyou", "atai", "tani"}

\* stats_df[stats_df['Metric'] == ...]: indexing a DataFrame by a column it
\* does not have raises KeyError
MetricLookupRaises(key) == "Metric" \notin StatsColumns(key)

\* one row of results['segment_table']: the columns 'θ/α比 (Bels)' and
\* 'IAF平均 (Hz)' under the names they have in the segment frame
SegmentRow(ratio, iaf) == [theta_alpha_ratio |-> ratio, iaf_mean |-> iaf]

\* the tables calculate_segment_analysis returns here: a recording of one
\* segment, one whose only segment has no band power, and a recording of five
\* segments whose alpha peak moves from 9.9 Hz to 10.1 Hz in the third
SegmentTables ==
    {<<SegmentRow(Int2Num(1), Int2Num(10))>>,
     <<SegmentRow(NaN, Int2Num(10))>>,
     <<SegmentRow(Int2Num(1), Float(Num(99, 10))),
       SegmentRow(Int2Num(1), Float(Num(99, 10))),
       SegmentRow(Int2Num(1), Float(Num(503, 50))),
       SegmentRow(Int2Num(1), Float(Num(101, 10))),
       SegmentRow(Int2Num(1), Float(Num(101, 10)))>>}

\* iaf_mean stays NaN in every row when no iaf_series is passed
TableFor(table, iaf_series) ==
    [i \in DOMAIN table |->
        IF iaf_series THEN table[i] ELSE [table[i] EXCEPT !.iaf_mean = NaN]]

\* segment_df[name].dropna()
ColumnOf(table, name) == dropna([i \in DOMAIN table |-> table[i][name]])

\* theta_alpha_values.mean() if len(theta_alpha_values) > 0
SegmentThetaAlpha(theta_alpha_values) ==
    IF Len(theta_alpha_values) > 0 THEN SeriesMean(theta_alpha_values) ELSE None

\* iaf_std / iaf_mean if iaf_mean > 0, iaf_std being iaf_values.std()
IafCvOf(iaf_values, iaf_mean) ==
    IF VLt(Zero, iaf_mean) THEN VDiv(SeriesStd(iaf_values, iaf_mean, 1), iaf_mean)
    ELSE None

\* the coefficient of variation of the IAF column if len(iaf_values) > 1
SegmentIafCv(iaf_values) ==
    IF Len(iaf_values) > 1 THEN IafCvOf(iaf_values, SeriesMean(iaf_values))
    ELSE None

\* value unless it is None, then the value of the next source
FirstOf(value, otherwise) == IF value = None THEN otherwise ELSE value

\* the values the score is computed from when their table is in results;
\* segment_table is results['segment_table'] when that key is in results
SessionIndicators(results, fmtheta_result, segment_table) ==
    [fmtheta |->
        IF fmtheta_result /\ "frontal_theta_stats" \in results
        THEN Int2Num(200) ELSE None,
     spectral_entropy |->
        IF "spectral_entropy_stats" \in results THEN Float(Num(7, 10)) ELSE None,
     theta_alpha_ratio |->
        FirstOf(IF "segment_table" \in results
                THEN SegmentThetaAlpha(ColumnOf(segment_table, "theta_alpha_ratio"))
                ELSE None,
                IF "band_ratios_stats" \in results THEN Int2Num(0) ELSE None),
     alpha_beta_ratio |->
        IF "band_ratios_stats" \in results THEN Int2Num(10) ELSE None,
     faa |-> IF "faa_stats" \in results THEN Num(1, 2) ELSE None,
     iaf_cv |->
        FirstOf(IF "segment_table" \in results
                THEN SegmentIafCv(ColumnOf(segment_table, "iaf_mean"))
                ELSE None,
                IF "paf_time_stats" \in results THEN Float(Num(1, 100)) ELSE None),
     hsi_quality |-> None]

\* the first k keys of a sequence of assignments
Stored(keys, k) == {keys[i] : i \in 1..k}

\* the keys stored before the optional stages, in the order of the assignments
CoreKeys == <<"data_info", "hsi_stats", "band_statistics">>

\* what raised when only the first `stored` of them were assigned: the loader
\* or the data info, calculate_hsi_statistics, calculate_band_statistics
CoreRaised(stored) ==
    CASE stored = 0 -> "load"
      [] stored = 1 -> "hsi_stats"
      [] stored = 2 -> "band_statistics"

\* run_full_analysis(data_path, output_dir) up to the band statistics: in no
\* try block, so an exception leaves run_full_analysis with the first `stored`
\* keys in results.  mne_dict is what prepare_mne_raw(df) will return for the
\* recording: None (FALSE) when it has no raw EEG channel
RunFullAnalysis ==
    /\ report.pc = "idle"
    /\ \E mne_dict \in BOOLEAN, stored \in 0..Len(CoreKeys) :
         report' =
            IF stored < Len(CoreKeys)
            THEN [report EXCEPT !.pc = "aborted", !.raised = CoreRaised(stored),
                                !.outcome = Append(@, <<CoreRaised(stored), "failed">>),
                                !.results = Stored(CoreKeys, stored)]
            ELSE [report EXCEPT !.pc = "fnirs", !.mne_dict = mne_dict,
                                !.results = Stored(CoreKeys, stored)]
    /\ UNCHANGED <<scoreVars, statVars, segVars, pairVars, dspVars, paf, ratios, caller>>

\* the keys the fNIRS block stores, in the order of the assignments
FnirsKeys == <<"fnirs_stats", "fnirs_img">>

\* the keys the band power plot and the PSD/PAF block store, in the order of
\* the assignments
PsdPafKeys(mne_dict, tfr_primary) ==
    <<"band_power_img", "band_power_quality_ratio">>
    \o (IF mne_dict
        THEN <<"psd_time_series_img", "psd_img", "psd_peaks">>
             \o (IF tfr_primary THEN <<"spectrogram_img">> ELSE <<>>)
             \o <<"paf_img", "paf_summary", "iaf">>
             \o (IF tfr_primary THEN <<"paf_time_img", "paf_time_stats">> ELSE <<>>)
        ELSE <<>>)

\* the fNIRS block: without optics data nothing is stored; an exception
\* leaves the block after the first `stored` assignments, and only KeyError is
\* caught
FnirsStage ==
    /\ report.pc = "fnirs"
    /\ \E optics_data \in BOOLEAN,
          outcome \in {"ok", "KeyError", "ValueError"},
          stored \in 0..(Len(FnirsKeys) - 1) :
         report' =
            CASE ~optics_data /\ outcome = "ok" ->
                   [report EXCEPT !.pc = "psd",
                                  !.outcome = Append(@, <<"fnirs", "no_optics">>)]
              [] optics_data /\ outcome = "ok" ->
                   [report EXCEPT !.pc = "psd",
                                  !.outcome = Append(@, <<"fnirs", "ok">>),
                                  !.results = @ \cup Stored(FnirsKeys, Len(FnirsKeys))]
              [] outcome = "KeyError" ->
                   [report EXCEPT !.pc = "psd",
                                  !.outcome = Append(@, <<"fnirs", "failed">>),
                                  !.results = @ \cup Stored(FnirsKeys,
                                                  IF optics_data THEN stored ELSE 0)]
              [] outcome = "ValueError" ->
                   [report EXCEPT !.pc = "aborted", !.raised = "fnirs",
                                  !.outcome = Append(@, <<"fnirs", "failed">>),
                                  !.results = @ \cup Stored(FnirsKeys,
                                                  IF optics_data THEN stored ELSE 0)]
    /\ UNCHANGED <<scoreVars, statVars, segVars, pairVars, dspVars, paf, ratios, caller>>

\* the band power plot, prepare_mne_raw and, if mne_dict, PSD, spectrogram
\* and PAF: outside any try block, so an exception leaves run_full_analysis
\* with the first `stored` keys of the block in results
PsdPafStage ==
    /\ report.pc = "psd"
    /\ \E outcome \in {"ok", "raises"}, tfr_primary \in BOOLEAN :
         LET keys == PsdPafKeys(report.mne_dict, report.mne_dict /\ tfr_primary)
         IN  \E stored \in 0..(Len(keys) - 1) :
               report' =
                  IF outcome = "raises"
                  THEN [report EXCEPT !.pc = "aborted", !.raised = "psd_paf",
                                      !.outcome = Append(@, <<"psd_paf", "failed">>),
                                      !.results = @ \cup Stored(keys, stored)]
                  ELSE [report EXCEPT
                           !.pc = IF report.mne_dict THEN "faa" ELSE "fmtheta",
                           !.tfr_primary = report.mne_dict /\ tfr_primary,
                           !.outcome = IF report.mne_dict
                                       THEN Append(@, <<"psd_paf", "ok">>) ELSE @,
                           !.results = @ \cup Stored(keys, Len(keys))]
    /\ UNCHANGED <<scoreVars, statVars, segVars, pairVars, dspVars, paf, ratios, caller>>

\* the FAA block: try ... except Exception
FaaStage ==
    /\ report.pc = "faa"
    /\ \E outcome \in {"ok", "failed"} :
         report' = [report EXCEPT
                       !.pc = "entropy",
                       !.outcome = Append(@, <<"faa", outcome>>),
                       !.results = IF outcome = "ok"
                                   THEN @ \cup {"faa_img", "faa_stats"} ELSE @]
    /\ UNCHANGED <<scoreVars, statVars, segVars, pairVars, dspVars, paf, ratios, caller>>

\* the spectral entropy block: try ... except Exception; the statistics are
\* stored only when a spectrogram channel exists
EntropyStage ==
    /\ report.pc = "entropy"
    /\ \E outcome \in {"ok", "failed"} :
         report' = [report EXCEPT
                       !.pc = "fmtheta",
                       !.outcome = Append(@, <<"spectral_entropy", outcome>>),
                       !.results = IF outcome = "ok" /\ report.tfr_primary
                                   THEN @ \cup {"spectral_entropy_img",
                                                "spectral_entropy_stats",
                                                "spectral_entropy_change"}
                                   ELSE @]
    /\ UNCHANGED <<scoreVars, statVars, segVars, pairVars, dspVars, paf, ratios, caller>>

\* the Fm theta block: try ... except Exception.  fmtheta_result is bound by
\* calculate_frontal_theta before plot_frontal_theta is called, and the three
\* keys are stored after the plot: when the plot raises, fmtheta_result is set
\* and the keys are absent
FmthetaStage ==
    /\ report.pc = "fmtheta"
    /\ \E outcome \in {"ok", "calculate_raises", "plot_raises"} :
         report' = [report EXCEPT
                       !.pc = "segment",
                       !.fmtheta_result = (outcome # "calculate_raises"),
                       !.outcome = Append(@, <<"fmtheta", IF outcome = "ok" THEN "ok"
                                                          ELSE "failed">>),
                       !.results = IF outcome = "ok"
                                   THEN @ \cup {"frontal_theta_img", "frontal_theta_stats",
                                                "frontal_theta_increase"}
                                   ELSE @]
    /\ UNCHANGED <<scoreVars, statVars, segVars, pairVars, dspVars, paf, ratios, caller>>

\* the segment block: try ... except Exception; fmtheta_result.time_series
\* raises AttributeError when fmtheta_result is None, and iaf_series is passed
\* when the PAF time course was plotted
SegmentStage ==
    /\ report.pc = "segment"
    /\ \E drawn \in {"ok", "failed"}, table \in SegmentTables :
         LET outcome == IF report.fmtheta_result THEN drawn ELSE "failed"
         IN  report' = [report EXCEPT
                           !.pc = "band_ratios",
                           !.outcome = Append(@, <<"segment", outcome>>),
                           !.segment_table =
                               IF outcome = "ok"
                               THEN TableFor(table, "paf_time_img" \in report.results)
                               ELSE @,
                           !.results = IF outcome = "ok"
                                       THEN @ \cup {"segment_table", "segment_plot",
                                                    "segment_peak_range",
                                                    "segment_peak_score"}
                                       ELSE @]
    /\ UNCHANGED <<scoreVars, statVars, segVars, pairVars, dspVars, paf, ratios, caller>>

\* the band ratios: calculate_band_ratios and plot_band_ratios are outside any
\* try block and come before the three assignments, so an exception leaves
\* run_full_analysis with none of the three keys stored
BandRatiosStage ==
    /\ report.pc = "band_ratios"
    /\ \E outcome \in {"ok", "raises"} :
         report' =
            IF outcome = "raises"
            THEN [report EXCEPT !.pc = "aborted", !.raised = "band_ratios",
                                !.outcome = Append(@, <<"band_ratios", "failed">>)]
            ELSE [report EXCEPT
                     !.pc = "score",
                     !.results = @ \cup {"band_ratios_img", "band_ratios_stats",
                                         "spike_analysis"}]
    /\ UNCHANGED <<scoreVars, statVars, segVars, pairVars, dspVars, paf, ratios, caller>>

\* the session score block: try ... except Exception around the look-ups and
\* the call of calculate_meditation_score
SessionScoreStage ==
    /\ report.pc = "score"
    /\ \E args \in {SessionIndicators(report.results, report.fmtheta_result,
                                       report.segment_table)} :
         LET looked_up == {"frontal_theta_stats", "spectral_entropy_stats",
                           "band_ratios_stats", "faa_stats"} \cap report.results
             fails == \E key \in looked_up : MetricLookupRaises(key)
             session_score ==
                 calculate_meditation_score(args, None, MEDITATION_SCORE_WEIGHTS)
         IN  report' =
                IF fails
                THEN [report EXCEPT !.pc = "report", !.raised = "session_score"]
                ELSE [report EXCEPT
                         !.pc = "report",
                         !.session_score = session_score.total_score,
                         !.session_level = session_score.level,
                         !.session_score_breakdown = session_score.scores,
                         !.results = @ \cup {"session_score", "session_level",
                                             "session_score_breakdown"}]
    /\ UNCHANGED <<scoreVars, statVars, segVars, pairVars, dspVars, paf, ratios, caller>>

\* generate_markdown_report(data_path, output_dir, results) and
\* generate_session_summary(data_path, results)
GenerateReport ==
    /\ report.pc = "report"
    /\ report' = [report EXCEPT !.pc = "reported", !.passed = report.results]
    /\ UNCHANGED <<scoreVars, statVars, segVars, pairVars, dspVars, paf, ratios, caller>>

SpecReport ==
    Idle /\ [][RunFullAnalysis \/ FnirsStage \/ PsdPafStage \/ FaaStage
                  \/ EntropyStage \/ FmthetaStage \/ SegmentStage
                  \/ BandRatiosStage \/ SessionScoreStage \/ GenerateReport]_vars

----------------------------------------------------------------------------
(* Claims about _normalize_indicator (SpecNormalize)                       *)

InUnit(x) == notna(x) /\ VLe(Zero, x) /\ VLe(x, One)

\* the value the claims expect at the low / high end of the range
LowEnd(reverse) == IF reverse THEN One ELSE Zero
HighEnd(reverse) == IF reverse THEN Zero ELSE One

\* C5: on every range with min < max a raw value equal to min gives 0.0 (1.0
\* reversed) and one equal to max gives 1.0 (0.0 reversed); a missing value
\* gives 0.5; when min = max every raw value gives 0.5.
C5_BoundaryLawAsClaimed ==
    norm.called =>
        /\ isna(norm.value) => norm.result = Half
        /\ (notna(norm.value) /\ norm.min_val = norm.max_val) => norm.result = Half
        /\ (notna(norm.value) /\ VLt(norm.min_val, norm.max_val)
                /\ norm.value = norm.min_val) => norm.result = LowEnd(norm.reverse)
        /\ (notna(norm.value) /\ VLt(norm.min_val, norm.max_val)
                /\ norm.value = norm.max_val) => norm.result = HighEnd(norm.reverse)

\* the linear rescaling of a raw value strictly inside the range
Rescaled(value, min_val, max_val, reverse) ==
    LET scaled == VDiv(VSub(value, min_val), VSub(max_val, min_val))
    IN  IF reverse THEN VSub(One, scaled) ELSE scaled

\* C6: on every range with min < max the result is in [0,1]; raw values <= min
\* saturate at 0 (1 reversed), raw values >= max at 1 (0 reversed), and in
\* between the result is the linear rescaling, reversed after rescaling.
C6_ClipRescaleAsClaimed ==
    (norm.called /\ VLt(norm.min_val, norm.max_val)) =>
        /\ InUnit(norm.result)
        /\ notna(norm.value) =>
             /\ VLe(norm.value, norm.min_val) => norm.result = LowEnd(norm.reverse)
             /\ VLe(norm.max_val, norm.value) => norm.result = HighEnd(norm.reverse)
             /\ (VLt(norm.min_val, norm.value) /\ VLt(norm.value, norm.max_val)) =>
                    norm.result = Rescaled(norm.value, norm.min_val,
                                           norm.max_val, norm.reverse)

\* where the two laws do hold: on the ranges with min < max whose bounds
\* np.isclose tells apart
LawsOnSeparatedRanges ==
    (norm.called /\ VLt(norm.min_val, norm.max_val)
        /\ ~isclose(norm.max_val, norm.min_val) /\ notna(norm.value)) =>
        /\ InUnit(norm.result)
        /\ VLe(norm.value, norm.min_val) => norm.result = LowEnd(norm.reverse)
        /\ VLe(norm.max_val, norm.value) => norm.result = HighEnd(norm.reverse)
        /\ (VLt(norm.min_val, norm.value) /\ VLt(norm.value, norm.max_val)) =>
               norm.result = Rescaled(norm.value, norm.min_val,
                                      norm.max_val, norm.reverse)

----------------------------------------------------------------------------
(* Claims about calculate_meditation_score (SpecScore, SpecScorePair)      *)

\* the weight map a call ends up using
EffectiveWeights(sc) ==
    IF sc.weights = None THEN MEDITATION_SCORE_WEIGHTS ELSE sc.weights

\* the normalised value the claims give to key of the weight map: the value of
\* the breakdown, and 0.5 for an indicator that is not supplied or is NaN or
\* has no entry in the breakdown at all
ClaimedNormalized(sc, key) ==
    IF key \in ScoreKeys /\ notna(sc.args[IndicatorTable[key].param])
    THEN sc.result.scores[key]
    ELSE Half

\* 100 * sum of weight * normalized over all keys of the weight map, added in
\* the order of the keys as the code adds them
ClaimedTotal(sc) ==
    VMul(WeightedSum([key \in DOMAIN EffectiveWeights(sc).at |->
                         ClaimedNormalized(sc, key)],
                     EffectiveWeights(sc)),
         Int2Num(100))

\* C3: total_score = 100 * sum over ALL keys of the weight map of
\* weight * normalized, a missing indicator counting 0.5 with its weight; no
\* key of the weight map is left out.
C3_TotalOverAllWeightKeys ==
    score.called => score.result.total_score = ClaimedTotal(score)

\* what the code keeps of C3: the formula on the weight maps whose keys are
\* all keys of the breakdown
TotalOverBreakdownKeys ==
    (score.called /\ DOMAIN EffectiveWeights(score).at \subseteq ScoreKeys)
        => score.result.total_score = ClaimedTotal(score)

\* C4: weights summing to 1.0 and every indicator missing give a total of
\* exactly 50.0.
C4_NeutralGivesFifty ==
    LET w == EffectiveWeights(score)
    IN  (/\ score.called
         /\ SumOver(DOMAIN w.at, w.at) = One
         /\ \A p \in Params : isna(score.args[p]))
        => score.result.total_score = Int2Num(50)

\* C7: the level is decided by total_score alone: >= 80 excellent, 65..80
\* good, 50..65 fair, below 50 needs improvement, each boundary belonging to
\* the higher level.
C7_LevelThresholds ==
    score.called =>
        LET t == score.result.total_score
            l == score.result.level
        IN  /\ (l = "excellent") <=> VLe(Int2Num(80), t)
            /\ (l = "good") <=> (VLe(Int2Num(65), t) /\ VLt(t, Int2Num(80)))
            /\ (l = "fair") <=> (VLe(Int2Num(50), t) /\ VLt(t, Int2Num(65)))
            /\ (l = "needs_improvement") <=> VLt(t, Int2Num(50))

\* a total of exactly 80 is rated excellent
C7_Witness ==
    /\ score.called
    /\ score.result.total_score = Int2Num(80)
    /\ score.result.level = "excellent"

\* C10: from the 'scores' breakdown alone a caller can tell a defaulted
\* indicator from a supplied one: two calls that return the same breakdown
\* agree on which indicators were missing.
C10_BreakdownTellsDefaulted ==
    (score.called /\ score2.called
        /\ score.result.scores = score2.result.scores)
    => \A p \in Params : isna(score.args[p]) <=> isna(score2.args[p])

\* C15: a weight map with a negative weight is rejected before any score is
\* computed: no call that returns a total_score was made with one.
C15_NegativeWeightRejected ==
    score.called =>
        \A key \in DOMAIN EffectiveWeights(score).at :
            Le(Zero, EffectiveWeights(score).at[key])

----------------------------------------------------------------------------
(* Claims about the summary statistics (SpecStats)                         *)

\* the finite entries of the series that was summarised
CleanSeries == dropna(series)

\* |z| >= 3.0 for an entry at the deviation dev from the mean of a series with
\* the population standard deviation std: the z-score exists (std is not 0)
\* and is at least 3 in absolute value
ZAtLeast3(dev, std) ==
    std # Zero /\ notna(std) /\ VLe(Int2Num(3), VAbs(VDiv(dev, std)))

PolicyKeptAt(clean, mn, std) ==
    SelectSeq(clean, LAMBDA x : ~ZAtLeast3(VSub(x, mn), std))

PolicyKeptOf(clean, mn) == PolicyKeptAt(clean, mn, SeriesStd(clean, mn, 0))

\* the values the two-tier policy lets into the statistics
PolicyKept(values) ==
    IF Len(dropna(values)) > 3
    THEN PolicyKeptOf(dropna(values), SeriesMean(dropna(values)))
    ELSE dropna(values)

\* C9: wherever a metric series is summarised, non-finite entries are
\* dropped; with more than 3 finite values exactly those with |z| >= 3.0 are
\* discarded; with 3 or fewer none is discarded and the raw statistics are
\* reported.
C9_TwoTierPolicy ==
    summary.site # "" =>
        /\ summary.kept = PolicyKept(series)
        /\ summary.mean = SeriesMean(PolicyKept(series))

\* the same statement at the two places that apply the policy
TwoTierPolicyWhereGuarded ==
    summary.site \in {"segment_fmtheta", "statistical_dataframe"} =>
        /\ summary.kept = PolicyKept(series)
        /\ summary.mean = SeriesMean(PolicyKept(series))

NotAllEqual(values) == \E i, j \in 1..Len(values) : values[i] # values[j]

\* C25 as stated: where the rejection is guarded by len > 3 (segment Fm-theta
\* means, band statistics), no value of a series of 4 to 10 finite,
\* not-all-equal values is discarded: the filtered series equals the input.
C25_NoRejectionUpToTenAsClaimed ==
    (summary.site \in {"segment_fmtheta", "statistical_dataframe"}
        /\ Len(CleanSeries) >= 4 /\ Len(CleanSeries) <= 10
        /\ NotAllEqual(CleanSeries))
    => /\ ZFiltered(CleanSeries) = CleanSeries
       /\ summary.kept = CleanSeries

\* the floats 2^-300 and 2^300
SmallestModerate == [k |-> "f64", s |-> 1, m |-> <<0, 0, 0, 128>>, e |-> -352]
LargestModerate == [k |-> "f64", s |-> 1, m |-> <<0, 0, 0, 128>>, e |-> 248]

\* x is 0 or a float whose magnitude is between 2^-300 and 2^300: no square of
\* a difference of two such values underflows or overflows
Moderate(x) ==
    x = Zero \/ (VLe(SmallestModerate, VAbs(x)) /\ VLe(VAbs(x), LargestModerate))

\* C25: no value of a series of 4 to 8 finite, not-all-equal values that are 0
\* or of a magnitude between 2^-300 and 2^300 is discarded: the filtered
\* series equals the input.
C25_NoRejectionUpToEight ==
    (summary.site \in {"segment_fmtheta", "statistical_dataframe"}
        /\ Len(CleanSeries) >= 4 /\ Len(CleanSeries) <= 8
        /\ NotAllEqual(CleanSeries)
        /\ \A i \in 1..Len(CleanSeries) : Moderate(CleanSeries[i]))
    => /\ ZFiltered(CleanSeries) = CleanSeries
       /\ summary.kept = CleanSeries

\* eight finite values, one of them 1 and the other seven 0 (|z| = sqrt(7)),
\* all kept
C25_Witness ==
    /\ summary.site = "segment_fmtheta"
    /\ Len(CleanSeries) = 8
    /\ \E i \in 1..8 :
          /\ CleanSeries[i] = One
          /\ \A j \in 1..8 \ {i} : CleanSeries[j] = Zero
    /\ ZFiltered(CleanSeries) = CleanSeries
    /\ summary.kept = CleanSeries
    /\ summary.mean = Num(1, 8)

----------------------------------------------------------------------------
(* Claims about calculate_segment_analysis and the ratio columns (Spec)    *)

\* C1 as stated: the segments of a returned analysis lie on a grid clipped to
\* the session: segment k starts at (first timestamp + warmup) + (k-1) *
\* segment length, each segment ends where the next starts, and the last
\* segment ends at session_end (clipped, never padded).
C1_GridClippedToSession ==
    seg.pc = "returned" =>
        LET N == Len(seg.records)
            first == call.df_clean[1].TimeStamp
            last == call.df_clean[Len(call.df_clean)].TimeStamp
        IN  /\ N >= 1
            /\ \A k \in 1..N :
                  seg.records[k].segment_start =
                      (first + call.warmup_minutes) + (k - 1) * call.segment_minutes
            /\ \A k \in 1..(N - 1) :
                  seg.records[k].segment_end = seg.records[k + 1].segment_start
            /\ seg.records[N].segment_end = last

\* what the code keeps of C1: where the boundary loop generates the starts
\* they lie on the grid and each segment ends where the next starts
GridOfGeneratedStarts ==
    (seg.pc = "returned" /\ seg.path # "mne") =>
        LET N == Len(seg.records)
            first == call.df_clean[1].TimeStamp
        IN  /\ N >= 1
            /\ \A k \in 1..N :
                  seg.records[k].segment_start =
                      (first + call.warmup_minutes) + (k - 1) * call.segment_minutes
            /\ \A k \in 1..(N - 1) :
                  seg.records[k].segment_end = seg.records[k + 1].segment_start

\* C2 as stated: when first timestamp + warmup is at or beyond the last
\* timestamp the call fails with an error; no segment list is ever built and
\* nothing is returned.
C2_WarmupConsumesSessionFails ==
    (/\ seg.pc # "idle"
     /\ call.segment_minutes > 0
     /\ call.df_clean # <<>>
     /\ call.df_clean[1].TimeStamp + call.warmup_minutes
            >= call.df_clean[Len(call.df_clean)].TimeStamp)
    => /\ seg.pc = "raised"
       /\ seg.segment_starts = <<>>
       /\ seg.records = <<>>

\* C8: in every segment and every row of the band ratio table, a ratio with a
\* missing band power operand is missing in the log and in the linear domain;
\* a linear ratio is never zero.
C8_RatioMissingPropagation ==
    /\ \A k \in 1..Len(seg.records) :
          LET r == seg.records[k]
              l == seg.locals[k]
          IN  /\ (isna(r.alpha_mean) \/ isna(r.theta_mean))
                    => r.theta_alpha_ratio = NaN
              /\ (isna(r.alpha_mean) \/ isna(r.beta_mean))
                    => (l.alpha_beta_ratio_log = NaN /\ l.alpha_beta_ratio = NaN)
              /\ l.alpha_beta_ratio # Zero
    /\ \A i \in 1..Len(frame.band_ratios_df) :
          \A pair \in RatioPairs :
              LET x == frame.band_ratios_df[i][pair[1]]
                  powers == frame.band_powers_df[i]
              IN  /\ (isna(powers[pair[2]]) \/ isna(powers[pair[3]]))
                        => (x.bels = NaN /\ x.linear = NaN)
                  /\ x.linear # Zero

\* a returned analysis with a segment whose alpha power is missing and whose
\* theta and beta powers are not: both ratios of the segment are missing
C8_Witness ==
    /\ seg.pc = "returned"
    /\ \E k \in 1..Len(seg.records) :
          /\ isna(seg.records[k].alpha_mean)
          /\ notna(seg.records[k].theta_mean)
          /\ notna(seg.records[k].beta_mean)
          /\ seg.records[k].theta_alpha_ratio = NaN
          /\ seg.locals[k].alpha_beta_ratio = NaN

\* C11: the peak segment of the metadata has the largest meditation_score of
\* the run: no segment scores strictly higher, peak_score is that segment's
\* score and peak_time_range its label.
C11_PeakIsMaximal ==
    seg.pc = "returned" =>
        LET p == seg.metadata.peak_segment_index
        IN  /\ p \in 1..Len(seg.records)
            /\ seg.records[p].segment_index = p
            /\ \A j \in 1..Len(seg.records) :
                  ~VLt(seg.records[p].meditation_score, seg.records[j].meditation_score)
            /\ seg.metadata.peak_score = seg.records[p].meditation_score
            /\ seg.metadata.peak_time_range = Label(seg.records[p])

\* a returned run of several segments whose peak is not the first one
C11_Witness ==
    /\ seg.pc = "returned"
    /\ Len(seg.records) >= 2
    /\ seg.metadata.peak_segment_index >= 2
    /\ VLt(seg.records[1].meditation_score, seg.metadata.peak_score)

\* the instant the warm-up ends: first timestamp + warmup_minutes
WarmupEnd == call.df_clean[1].TimeStamp + call.warmup_minutes

\* the entries of a series of the call that lie in the window of a record and
\* not in the warm-up
AfterWarmupIn(ts, record) ==
    SelectSeq(ts, LAMBDA e : /\ e.t >= WarmupEnd
                             /\ e.t >= record.segment_start
                             /\ e.t < record.segment_end)

\* the band power the warm-up leaves to the segment of a record: on the
\* epoch path the power of the epoch computed from the samples of raw at or
\* after the warm-up, on the other paths the mean over the window of the
\* entries of the band series at or after the warm-up
BandAfterWarmup(k, band) ==
    IF seg.path = "mne"
    THEN EpochBandPower(
             SelectSeq(call.raw,
                       LAMBDA s : /\ s.time >= call.warmup_minutes
                                  /\ s.time >= seg.epochs[k].tmin
                                  /\ s.time <= seg.epochs[k].tmax),
             band)
    ELSE SeriesMean(Values(AfterWarmupIn(
             IF seg.path = "band_means" THEN call.band_means[band]
             ELSE BandSeries(call.df_clean, band),
             seg.records[k])))

\* the IAF values the warm-up leaves to the segment of a record
IafAfterWarmup(k) == Values(AfterWarmupIn(call.iaf_series, seg.records[k]))

\* the score of a segment from the indicators of its row
ScoreOfRow(k) ==
    calculate_meditation_score(
        [p \in Params |->
            CASE p = "fmtheta" -> seg.records[k].fmtheta_mean
              [] p = "theta_alpha_ratio" -> seg.records[k].theta_alpha_ratio
              [] p = "alpha_beta_ratio" -> seg.locals[k].alpha_beta_ratio
              [] p = "iaf_cv" -> seg.locals[k].iaf_cv
              [] OTHER -> None],
        None, MEDITATION_SCORE_WEIGHTS).total_score

\* C12: no segment starts before first timestamp + warmup_minutes, and the
\* metrics, the score and the annotation of every segment are those of the
\* table rows, Fm-theta values, IAF values and raw samples of the call at or
\* after that instant alone, on each of the three paths of the band powers.
C12_WarmupExcluded ==
    \A k \in 1..Len(seg.records) :
        LET r == seg.records[k]
            rows == AfterWarmupIn(BandSeries(call.df_clean, "Alpha"), r)
            fm == Values(AfterWarmupIn(call.fmtheta_series, r))
            iaf_given == "iaf_series" \in call.given
        IN  /\ r.segment_start >= WarmupEnd
            /\ seg.path = "mne" =>
                  /\ seg.epochs[k].tmin >= call.warmup_minutes
                  /\ r.segment_start = call.df_clean[1].TimeStamp + seg.epochs[k].tmin
            /\ r.alpha_mean = BandAfterWarmup(k, "Alpha")
            /\ r.beta_mean = BandAfterWarmup(k, "Beta")
            /\ r.theta_mean = BandAfterWarmup(k, "Theta")
            /\ r.fmtheta_mean = SegmentFmMean(fm).mean
            /\ r.iaf_mean = IF iaf_given THEN SeriesMean(IafAfterWarmup(k)) ELSE NaN
            /\ seg.locals[k].iaf_cv =
                  IF iaf_given
                  THEN IafCv(IafAfterWarmup(k))
                  ELSE NaN
            /\ r.theta_alpha_ratio = theta_alpha_ratio(r.alpha_mean, r.theta_mean)
            /\ seg.locals[k].alpha_beta_ratio = alpha_beta_ratio(r.alpha_mean, r.beta_mean)
            /\ r.meditation_score = ScoreOfRow(k)
            /\ seg.locals[k].clean_count = Len(rows)
            /\ ("no_data" \in {seg.comments[k][i] : i \in 1..Len(seg.comments[k])})
                   <=> (rows = <<>>)
            /\ ("no_fmtheta" \in {seg.comments[k][i] : i \in 1..Len(seg.comments[k])})
                   <=> (dropna(fm) = <<>>)

\* a returned run with a warm-up whose first row carries Fm theta, alpha
\* power and an IAF value, while the first segment has none of them
C12_Witness ==
    /\ seg.pc = "returned"
    /\ call.warmup_minutes >= 1
    /\ "iaf_series" \in call.given
    /\ notna(call.df_clean[1].Alpha)
    /\ notna(call.fmtheta_series[1].v)
    /\ notna(call.iaf_series[1].v)
    /\ isna(seg.records[1].alpha_mean)
    /\ isna(seg.records[1].fmtheta_mean)
    /\ isna(seg.records[1].iaf_mean)
    /\ seg.records[1].meditation_score = Int2Num(50)

\* the metrics of a segment row that the arguments of the call supply
RowMetrics ==
    {"fmtheta_mean", "alpha_mean", "beta_mean", "theta_mean", "theta_alpha_ratio"}

\* C13 as stated: a run that returns has a row for every segment; a metric
\* whose window holds no value is NaN in the row, never a number; and the
\* annotation of a row is non-empty whenever a metric of the row is missing.
C13_MissingIsAnnotated ==
    seg.pc = "returned" =>
        /\ Len(seg.records) = Len(seg.segment_starts)
        /\ \A k \in 1..Len(seg.records) :
              LET r == seg.records[k]
                  held(band) ==
                      dropna(Values(Window(BandSeries(seg.df_clean, band),
                                           r.segment_start, r.segment_end)))
                  fm == dropna(Values(Window(seg.fmtheta_series,
                                             r.segment_start, r.segment_end)))
              IN  /\ held("Alpha") = <<>> => r.alpha_mean = NaN
                  /\ held("Beta") = <<>> => r.beta_mean = NaN
                  /\ held("Theta") = <<>> => r.theta_mean = NaN
                  /\ fm = <<>> => r.fmtheta_mean = NaN
                  /\ (\E c \in RowMetrics : isna(r[c])) => seg.comments[k] # <<>>

\* the part of C13 the code keeps: a row for every segment and an annotation
\* whenever the window has no row or no Fm-theta value
RowsAndNaNKept ==
    seg.pc = "returned" =>
        /\ Len(seg.records) = Len(seg.segment_starts)
        /\ \A k \in 1..Len(seg.records) :
              LET r == seg.records[k]
              IN  (seg.locals[k].clean_count = 0 \/ isna(r.fmtheta_mean))
                      => seg.comments[k] # <<>>

\* segment k has no data for any indicator of the score: its Fm-theta mean,
\* its two ratios and its IAF variation are all missing
NoIndicator(k) ==
    /\ isna(seg.records[k].fmtheta_mean)
    /\ isna(seg.records[k].theta_alpha_ratio)
    /\ isna(seg.locals[k].alpha_beta_ratio)
    /\ isna(seg.locals[k].iaf_cv)

\* C27: a segment without data for any indicator scores exactly 50.0 under
\* the default weights, and when every segment with data scores below 50.0
\* the peak is the first segment without data, annotated or not.
C27_EmptySegmentScoresFifty ==
    seg.pc = "returned" =>
        LET n == Len(seg.records)
            empty == {k \in 1..n : NoIndicator(k)}
        IN  /\ \A k \in empty : seg.records[k].meditation_score = Int2Num(50)
            /\ (empty # {}
                  /\ \A k \in (1..n) \ empty :
                        VLt(seg.records[k].meditation_score, Int2Num(50)))
               => /\ seg.metadata.peak_segment_index \in empty
                  /\ \A k \in empty : seg.metadata.peak_segment_index <= k
                  /\ seg.metadata.peak_score = Int2Num(50)
                  /\ seg.table[seg.metadata.peak_segment_index].peak

\* a run with an IAF series whose first segment has data for every
\* indicator, the IAF variation included, and scores below 50, and whose peak
\* is a later segment without data, annotated as lacking Fm theta
C27_Witness ==
    /\ seg.pc = "returned"
    /\ "iaf_series" \in call.given
    /\ Len(seg.records) >= 2
    /\ notna(seg.records[1].fmtheta_mean)
    /\ notna(seg.locals[1].alpha_beta_ratio)
    /\ notna(seg.locals[1].iaf_cv)
    /\ VLt(seg.records[1].meditation_score, Int2Num(50))
    /\ seg.metadata.peak_segment_index >= 2
    /\ NoIndicator(seg.metadata.peak_segment_index)
    /\ seg.comments[seg.metadata.peak_segment_index] # <<>>
    /\ seg.metadata.peak_score = Int2Num(50)

\* the segments of the run whose window [segment_start, segment_end) holds t
WindowsHolding(t) ==
    {k \in 1..Len(seg.records) :
        seg.records[k].segment_start <= t /\ t < seg.records[k].segment_end}

\* C28: where the segment grid is generated by the boundary loop (the legacy
\* path: band powers from the DataFrame columns or from band_means), every
\* sample with first timestamp + warmup <= t <= last timestamp is counted in
\* exactly one segment window.
C28_EverySampleInOneWindow ==
    (seg.pc = "returned" /\ seg.path # "mne") =>
        \A i \in 1..Len(call.df_clean) :
            LET t == call.df_clean[i].TimeStamp
            IN  (WarmupEnd <= t /\ t <= seg.session_end)
                    => Cardinality(WindowsHolding(t)) = 1

\* what the code keeps of C28: no sample is in two windows, and with a
\* generated grid every sample after the warm-up and strictly before the last
\* timestamp is in one
SamplesBeforeLastInOneWindow ==
    (seg.pc = "returned" /\ seg.path # "mne") =>
        \A i \in 1..Len(call.df_clean) :
            LET t == call.df_clean[i].TimeStamp
            IN  /\ Cardinality(WindowsHolding(t)) <= 1
                /\ (WarmupEnd <= t /\ t < seg.session_end)
                      => Cardinality(WindowsHolding(t)) = 1

\* C29: in a returned analysis the segment_index values are 1..N in
\* increasing order of segment_start, peak_segment_index is one of them,
\* exactly one row of the display table carries the peak marker, and among
\* segments that share the largest score the lowest index is the peak.
C29_IndexAndPeakMarker ==
    seg.pc = "returned" =>
        LET n == Len(seg.records)
            p == seg.metadata.peak_segment_index
        IN  /\ n >= 1
            /\ \A k \in 1..n : seg.records[k].segment_index = k
            /\ \A k \in 1..(n - 1) :
                  seg.records[k].segment_start < seg.records[k + 1].segment_start
            /\ p \in {seg.records[k].segment_index : k \in 1..n}
            /\ Len(seg.table) = n
            /\ {i \in 1..n : seg.table[i].peak} = {p}
            /\ seg.table[p].segment = p
            /\ \A j \in 1..n :
                  seg.records[j].meditation_score = seg.records[p].meditation_score
                     => p <= j

\* three segments, the last two tied at the largest score: the second is
\* the peak and the only marked row
C29_Witness ==
    /\ seg.pc = "returned"
    /\ Len(seg.records) = 3
    /\ VLt(seg.records[1].meditation_score, seg.records[2].meditation_score)
    /\ seg.records[2].meditation_score = seg.records[3].meditation_score
    /\ seg.metadata.peak_segment_index = 2
    /\ seg.table[2].peak /\ ~seg.table[1].peak /\ ~seg.table[3].peak

\* ceil(a / b) for a >= 0 and b > 0
CeilDiv(a, b) == (a + b - 1) \div b

\* the number of segments the claim allows for a session of the given
\* duration after the warm-up
MostSegments(duration, segment_minutes) ==
    IF duration = 0 THEN 1 ELSE CeilDiv(duration, segment_minutes)

\* C30: segment_minutes <= 0 is rejected before any segment start is
\* generated; for segment_minutes > 0 the boundary loop terminates, and the
\* number of segments is at least one and at most
\* ceil((last - (first + warmup)) / segment length), one when that is zero.
C30_BoundaryLoopTerminates ==
    /\ [](call.segment_minutes <= 0 /\ call.impl # ""
             => /\ seg.pc = "raised" /\ seg.error = "segment_minutes"
                /\ seg.segment_starts = <<>> /\ seg.records = <<>>)
    /\ [](seg.pc = "boundaries"
             => /\ call.segment_minutes > 0
                /\ Len(seg.segment_starts)
                      <= MostSegments(seg.session_end - seg.session_start,
                                      call.segment_minutes))
    /\ [](seg.pc = "segments"
             => /\ Len(seg.segment_starts) >= 1
                /\ Len(seg.segment_starts)
                      <= MostSegments(seg.session_end - seg.session_start,
                                      call.segment_minutes))
    /\ (seg.pc = "boundaries" ~> seg.pc = "segments")

\* the loop has ended on a session whose duration after the warm-up is not
\* a multiple of the segment length: two segments for three minutes cut
\* every two minutes
C30_Witness ==
    /\ seg.pc = "segments"
    /\ call.segment_minutes = 2
    /\ seg.session_end - seg.session_start = 3
    /\ seg.segment_starts = <<seg.session_start, seg.session_start + 2>>

----------------------------------------------------------------------------
(* Claims about repeated runs (SpecRuns)                                   *)

\* C14 as stated: two runs of create_statistical_dataframe with the same
\* arguments, optional arguments left at their defaults or not, return
\* identical tables, segment timestamps included.
C14_RunsIdentical ==
    Len(runs) = 2 => runs[1].result = runs[2].result

\* what the code keeps of C14: the values of the tables are identical, and so
\* are the timestamps when session_start is passed
RunsIdenticalUpToClock ==
    Len(runs) = 2 =>
        /\ runs[1].result.band_powers = runs[2].result.band_powers
        /\ runs[1].result.band_ratios = runs[2].result.band_ratios
        /\ runs[1].args.session_start # None
              => runs[1].result.timestamps = runs[2].result.timestamps

----------------------------------------------------------------------------
(* Claims about the normalized frame (SpecColumns)                         *)

\* C16 as stated: the normalized value reported for a segment does not change
\* when the metric values of the other segments of the session change.
C16_NormalizedIsStatic ==
    columns.called =>
        columns.normalized_first[columns.k] = columns.normalized_second[columns.k]

\* the indicator scores of calculate_meditation_score, which use the static
\* ranges of IndicatorTable, do not depend on the other segments
IndicatorScoreIsStatic ==
    columns.called =>
        \A key \in ScoreKeys :
            LET t == IndicatorTable[key]
            IN  _normalize_indicator(columns.first[columns.k], t.min_val,
                                     t.max_val, t.reverse)
                = _normalize_indicator(columns.second[columns.k], t.min_val,
                                       t.max_val, t.reverse)

----------------------------------------------------------------------------
(* Claims about the Welch PSD (SpecSpectrum)                               *)

\* C17 as stated: in every PSD entry point the upper frequency handed to the
\* Welch estimator is at most 0.95 * sfreq / 2.
C17_FmaxBelowNyquistMargin ==
    spectrum.site # "" =>
        Le(spectrum.fmax, Mul(Num(95, 100), Num(spectrum.sfreq, 2)))

\* the same bound at the two entry points that compute band powers
FmaxBoundInBandPowerCalls ==
    spectrum.site \in {"create_statistical_dataframe",
                       "_calculate_band_power_from_epochs"} =>
        Le(spectrum.fmax, Mul(Num(95, 100), Num(spectrum.sfreq, 2)))

\* C18: each band takes exactly the bins with low <= f < high, so no bin is
\* in two bands, and a band without a bin is NaN, in linear power and after
\* the conversion to the log domain.
C18_BandBins ==
    \A band \in DOMAIN spectrum.band_powers :
        LET b == spectrum.band_powers[band]
            low == Int2Num(BandTable(spectrum.site)[band][1])
            high == Int2Num(BandTable(spectrum.site)[band][2])
        IN  /\ b.bins = {f \in spectrum.freqs : Le(low, f) /\ Lt(f, high)}
            /\ \A other \in DOMAIN spectrum.band_powers \ {band} :
                  b.bins \cap spectrum.band_powers[other].bins = {}
            /\ b.bins = {} => (b.band_power = NaN /\ b.band_power_bels = NaN)
            /\ b.bins # {} => (notna(b.band_power) /\ notna(b.band_power_bels))

\* a spectrum that stops below the Gamma band and has a bin on the edge
\* between Theta and Alpha, which counts for Alpha alone
C18_Witness ==
    /\ spectrum.site = "create_statistical_dataframe"
    /\ spectrum.band_powers["Gamma"].bins = {}
    /\ spectrum.band_powers["Gamma"].band_power_bels = NaN
    /\ Int2Num(8) \in spectrum.band_powers["Alpha"].bins
    /\ Int2Num(8) \notin spectrum.band_powers["Theta"].bins
    /\ spectrum.band_powers["Alpha"].band_power = Int2Num(34)

----------------------------------------------------------------------------
(* Claims about the envelope metrics (SpecEnvelope)                        *)

\* C19 as stated: every envelope metric runs percentile clip, resampling,
\* rolling mean and rolling median in this order, none skipped, and both
\* rolling windows are centered on the sample they produce.
C19_EnvelopeStepOrder ==
    envelope.pc = "done" =>
        /\ [i \in 1..Len(envelope.steps) |-> envelope.steps[i].name]
               = <<"clip", "resample", "rolling_mean", "rolling_median">>
        /\ \A i \in 1..Len(envelope.steps) :
              envelope.steps[i].name \in {"rolling_mean", "rolling_median"}
                  => envelope.steps[i].center

\* what the code keeps of C19: the steps that run do so in the order clip,
\* resample, rolling mean, rolling median, and Fm theta always clips first
StepRank(name) ==
    CASE name = "clip" -> 1 [] name = "resample" -> 2
      [] name = "rolling_mean" -> 3 [] name = "rolling_median" -> 4

EnvelopeStepsInOrder ==
    /\ \A i \in 1..Len(envelope.steps), j \in 1..Len(envelope.steps) :
          i < j => StepRank(envelope.steps[i].name) < StepRank(envelope.steps[j].name)
    /\ (envelope.metric = "fmtheta" /\ envelope.pc \notin {"idle", "power"})
          => envelope.steps[1].name = "clip"

\* right after the resampling every label is a bin edge counted from
\* midnight, consecutive labels are one interval apart, and the first bin
\* holds the first sample
ResampleBinsFromMidnight ==
    (envelope.pc = "resampled" /\ envelope.resample_interval # 0) =>
        \A c \in DOMAIN envelope.power :
            LET resampled == envelope.power[c]
                interval == envelope.resample_interval
            IN  /\ \A j \in 1..Len(resampled) : resampled[j].t % interval = 0
                /\ \A j \in 1..(Len(resampled) - 1) :
                      resampled[j + 1].t = resampled[j].t + interval
                /\ resampled[1].t <= envelope.input[1].t
                /\ envelope.input[1].t < resampled[1].t + interval

\* C20: the percentile clip of the Fm-theta power keeps every sample and its
\* index, puts every value in [0, p90 of the series before the clip], leaves
\* the values at or below p90 unchanged, and when a value exceeds p90 the
\* largest value after the clip is p90.
C20_PercentileClip ==
    (envelope.metric = "fmtheta" /\ envelope.pc \notin {"idle", "power"}) =>
        LET before == envelope.input
            after == envelope.clipped
            p90 == quantile(Values(before), 9)
        IN  /\ Len(after) = Len(before)
            /\ \A i \in 1..Len(after) :
                  /\ after[i].t = before[i].t
                  /\ Le(Zero, after[i].v) /\ Le(after[i].v, p90)
                  /\ Le(before[i].v, p90) => after[i].v = before[i].v
            /\ (\E i \in 1..Len(before) : Lt(p90, before[i].v))
                  => /\ \E i \in 1..Len(after) : after[i].v = p90
                     /\ \A i \in 1..Len(after) : Le(after[i].v, p90)

\* a series of ones with one spike of 100: after the clip the largest value
\* is the 90th percentile, below the spike
C20_Witness ==
    /\ envelope.metric = "fmtheta" /\ envelope.pc = "done"
    /\ Len(envelope.input) = MaxSamples
    /\ \E i \in 1..Len(envelope.input) :
          /\ envelope.input[i].v = Int2Num(100)
          /\ Lt(envelope.clipped[i].v, Int2Num(100))
          /\ Lt(One, envelope.clipped[i].v)
          /\ envelope.clipped[i].v = envelope.upper_bound
          /\ \A j \in 1..Len(envelope.input) \ {i} : envelope.input[j].v = One

----------------------------------------------------------------------------
(* Claims about calculate_paf (SpecPaf)                                    *)

\* C21: when calculate_paf returns, each channel's PAF is an in-band bin of
\* maximal power among that channel's in-band bins, the lowest such bin on a
\* tie; the IAF is the mean of the per-channel peaks and lies between the
\* smallest and the largest of them.
C21_PeakAlphaFrequency ==
    (paf.called /\ paf.raised = "") =>
        LET n == Len(paf.paf_by_channel)
            in_band == {f \in paf.freqs : Le(Int2Num(paf.alpha_range[1]), f)
                                          /\ Le(f, Int2Num(paf.alpha_range[2]))}
            peak(i) == paf.paf_by_channel[i].PAF
        IN  /\ n = Len(paf.psds)
            /\ \A i \in 1..n :
                  /\ peak(i) \in in_band
                  /\ \A g \in in_band : Le(paf.psds[i][g], paf.psds[i][peak(i)])
                  /\ \A g \in in_band :
                        paf.psds[i][g] = paf.psds[i][peak(i)] => Le(peak(i), g)
            /\ Mul(paf.iaf, Int2Num(n)) = SeqSum([i \in 1..n |-> peak(i)])
            /\ \E i \in 1..n : Le(peak(i), paf.iaf)
            /\ \E i \in 1..n : Le(paf.iaf, peak(i))

\* a flat channel peaks at the lowest in-band bin, a second channel peaks
\* higher, and the IAF is strictly between the two
C21_Witness ==
    /\ paf.called /\ paf.raised = "" /\ Len(paf.paf_by_channel) >= 2
    /\ Cardinality(paf.alpha_freqs) >= 2
    /\ \E i, j \in 1..Len(paf.paf_by_channel) :
          /\ \A f, g \in paf.alpha_freqs : paf.psds[i][f] = paf.psds[i][g]
          /\ \A g \in paf.alpha_freqs : Le(paf.paf_by_channel[i].PAF, g)
          /\ Lt(paf.paf_by_channel[i].PAF, paf.iaf)
          /\ Lt(paf.iaf, paf.paf_by_channel[j].PAF)

----------------------------------------------------------------------------
(* Claims about the ratio calculator (SpecRatios)                          *)

\* 10 ** x spelled out for the whole numbers the operands give: the power
\* of ten itself, or for a negative x the float nearest to 1 / 10^-x
TenToThe(x) ==
    IF x.n >= 0 THEN Int2Num(Pow(10, x.n))
    ELSE VDiv(One, Int2Num(Pow(10, -x.n)))

\* C22: the log-domain ratio is the numerator's log power minus the
\* denominator's, the linear ratio is 10 raised to that, and neither is
\* clamped, however far apart the operands are.
C22_RatioNotClamped ==
    /\ ratios.site = "calculate_segment_analysis" =>
          LET p == ratios.powers
          IN  /\ (notna(p.Alpha) /\ notna(p.Theta)) =>
                    ratios.stored.theta_alpha_ratio = Sub(p.Theta, p.Alpha)
              /\ (notna(p.Alpha) /\ notna(p.Beta)) =>
                    /\ ratios.stored.alpha_beta_ratio_log = Sub(p.Alpha, p.Beta)
                    /\ ratios.stored.alpha_beta_ratio = TenToThe(Sub(p.Alpha, p.Beta))
    /\ ratios.site = "create_statistical_dataframe" =>
          \A pair \in RatioPairs :
             LET num == ratios.powers[pair[2]]
                 den == ratios.powers[pair[3]]
             IN  (notna(num) /\ notna(den)) =>
                    /\ ratios.stored[pair[1]].bels = Sub(num, den)
                    /\ ratios.stored[pair[1]].linear = TenToThe(Sub(num, den))

\* alpha 9 Bels above beta: the stored linear ratio is 10^9, far above the
\* upper end (10) of the range the score normalises it to
C22_Witness ==
    /\ ratios.site = "calculate_segment_analysis"
    /\ ratios.powers.Alpha = Int2Num(5) /\ ratios.powers.Beta = Int2Num(-4)
    /\ ratios.stored.alpha_beta_ratio_log = Int2Num(9)
    /\ ratios.stored.alpha_beta_ratio = Int2Num(1000000000)
    /\ Lt(IndicatorTable["alpha_beta_ratio"].max_val, ratios.stored.alpha_beta_ratio)

----------------------------------------------------------------------------
(* Claims about callers of calculate_meditation_score (SpecCaller)         *)

\* C23 as stated: whatever callers do to the dictionaries they were
\* returned, a later call with default weights uses the original default
\* weights and returns the total these give for its inputs.
C23_DefaultsNotShared ==
    /\ MEDITATION_SCORE_WEIGHTS = DefaultWeights
    /\ score2.called =>
          /\ score2.result.weights = DefaultWeights
          /\ score2.result.total_score =
                calculate_meditation_score(score2.args, None, DefaultWeights).total_score

\* what the code keeps of C23: the default weights change only through an
\* item assignment on the 'weights' entry of a result of a default call
DefaultsKeptUnlessWeightsWritten ==
    ~caller.wrote =>
        /\ MEDITATION_SCORE_WEIGHTS = DefaultWeights
        /\ score2.called =>
              score2.result.total_score =
                 calculate_meditation_score(score2.args, None, DefaultWeights).total_score

----------------------------------------------------------------------------
(* Claims about run_full_analysis (SpecReport)                             *)

\* C24 as stated: whichever optional stages succeeded or failed, the results
\* handed to the report contain the session score and level.
C24_ReportGetsSessionScore ==
    report.pc = "reported" =>
        {"session_score", "session_level"} \subseteq report.passed

\* what the code keeps of C24: when neither the FAA nor the spectral entropy
\* statistics are in results, the report gets a session score, and the
\* indicators of the stages that stored nothing are neutral
SessionScoreWithoutFaaAndEntropy ==
    (report.pc = "reported"
        /\ report.passed \cap {"faa_stats", "spectral_entropy_stats"} = {})
    => /\ {"session_score", "session_level"} \subseteq report.passed
       /\ report.session_score_breakdown["faa"] = Half
       /\ report.session_score_breakdown["spectral_entropy"] = Half
       /\ "frontal_theta_stats" \notin report.passed
             => report.session_score_breakdown["fmtheta"] = Half

\* a failure in the PSD/PAF block, or one in the fNIRS block that is not a
\* KeyError, is caught
OptionalStageFailuresCaught == report.pc # "aborted"

====
